---- MODULE Spec2Model ----
(***************************************************************************)
(* Producer/consumer teaching programs of embedded-cpp-studies.           *)
(*                                                                         *)
(* Each program is a separate main(); `prog` records which one runs.       *)
(* The programs share the same shape of state, so one set of variables     *)
(* carries it:                                                             *)
(*   buffer         the shared std::queue<int> (buffer / shared_buffer /   *)
(*                  queue_ / q), front at index 1                          *)
(*   producer_done  the done flag (producer_done / finished_)              *)
(*   mutex          the thread holding buffer_mutex / mutex_ / mtx         *)
(*   cv_not_empty   threads suspended in wait() on buffer_not_empty /      *)
(*                  buffer_condition / condition_ / cv and not yet woken   *)
(*   cv_not_full    threads suspended in wait() on buffer_not_full         *)
(*   pc             each thread's position in its routine                  *)
(*   i              each producer's loop counter                           *)
(*   item           each consumer's local item                             *)
(*   consumed_count each consumer's local count                            *)
(*   popped         history: every removal from the buffer, in the order   *)
(*                  the removals happen, as [by |-> consumer, item |-> v]  *)
(*   pushed         history: every item appended to the buffer, in order   *)
(*                                                                         *)
(* The template demos exercise three fixed-capacity containers from one    *)
(* thread; each object is a record of its data members:                    *)
(*   int_stack      Stack<int, MaxSize>: data, top_index                   *)
(*   ring           RingBuffer<int, Size>: buffer, head, tail, full        *)
(*   sensor_pool    MemoryPool<SensorReading, PoolSize>: used,             *)
(*                  allocated_count (a slot's bytes are not modelled)      *)
(*   ret            the last member call: its name, argument, bool result  *)
(*                  (for deallocate: whether a slot was released), value   *)
(*                  returned and exception or diagnostic raised            *)
(*   fifo           history: the items a first-in first-out queue holding  *)
(*                  at most Size items retains after the same calls as     *)
(*                  ring, and the item its last push displaced             *)
(*   live           history: the pointers allocate() returned that were    *)
(*                  not handed to deallocate() since                       *)
(***************************************************************************)
EXTENDS Integers, Sequences, FiniteSets, TLC

VARIABLES prog, buffer, producer_done, mutex, cv_not_empty, cv_not_full,
          pc, i, item, consumed_count, popped, pushed,
          int_stack, ring, sensor_pool, ret, fifo, live

vars == <<prog, buffer, producer_done, mutex, cv_not_empty, cv_not_full,
          pc, i, item, consumed_count, popped, pushed,
          int_stack, ring, sensor_pool, ret, fifo, live>>

\* ---------------------------------------------------------------- bounds
\* Items each producer loop makes (50 in producer_consumer.cpp, 5 in the
\* step programs, 10 in the simple demo, 10000 in cpp-concurrency-demo).
NUM_ITEMS == 4

\* Capacity of the bounded buffer (10 in producer_consumer.cpp).
BUFFER_SIZE == 2

\* Producer threads of the Advanced Usage set-up (3 in BUILD_AND_RUN.md).
NUM_PRODUCERS == 2

\* Items each producer makes in the Multiple Producers/Consumers extension
\* of efficient_version (NUM_ITEMS, 50, in the source); more than
\* BUFFER_SIZE, so that one producer alone can fill the buffer.
EXTENSION_NUM_ITEMS == 3

\* Consumer threads of the step programs and of the simple demo.
NUM_CONSUMERS == 2

\* Capacity of the Stack (10 for int_stack in class_templates.cpp).
MaxSize == 3

\* Capacity of the RingBuffer (5 in demonstrateRingBuffer).
Size == 3

\* Slots of the MemoryPool (4 in demonstrateMemoryPool, as here).
PoolSize == 4

\* The values pushed on the containers are 1..MaxItem (10, 20, ... in the
\* demos); more values than Size, so that a run can tell every retained
\* item from every overwritten one.
MaxItem == 4

\* sizeof(SensorReading): the stride of the pool's slots, in bytes.
sizeof_T == 16

\* The address of the first byte of the pool array (any slot-aligned
\* address other than the null pointer's).
pool_addr == 64

\* The null pointer.
nullptr == 0

\* ---------------------------------------------------------------- threads
NoThread == <<"none", 0>>

Producers == {<<"producer", k>> : k \in 1..NUM_PRODUCERS}

Consumers == {<<"consumer", k>> : k \in 1..NUM_CONSUMERS}

Threads == Producers \cup Consumers

\* Faulty variant: main() of the simple demo starts several producer
\* threads, each with the whole item count.
ProgProducers_several(p) ==
    IF p \in {"simple", "simple_mp", "efficient_mp"} THEN Producers
    ELSE {<<"producer", 1>>}

\* The threads main() starts in program p.
ProgProducers(p) ==
    IF p \in {"simple_mp", "efficient_mp"} THEN Producers
    ELSE {<<"producer", 1>>}

ProgConsumers(p) ==
    IF p \in {"efficient", "mutex_only", "cppq", "buggy", "race_condition"}
    THEN {<<"consumer", 1>>}
    ELSE Consumers

ProgThreads(p) == ProgProducers(p) \cup ProgConsumers(p)

AllDone == \A t \in ProgThreads(prog) : pc[t] = "done"

\* ------------------------------------------------- std::queue, mutex, cv
\* Faulty variant: back() read in place of front().
back(q) == q[Len(q)]

\* std::queue<int>::front()
front(q) == Head(q)

\* std::queue<int>::pop()
pop_front(q) == Tail(q)

\* std::queue<int>::push(v)
push_back(q, v) == Append(q, v)

\* --------------------------------------------------- container objects
\* The state of the producer/consumer programs, which the container demos
\* leave alone.
threads_state ==
    <<prog, buffer, producer_done, mutex, cv_not_empty, cv_not_full,
      pc, i, item, consumed_count, popped, pushed>>

\* The container objects and the record of the calls made on them, which
\* the producer/consumer programs leave alone.
containers == <<int_stack, ring, sensor_pool, ret, fifo, live>>

\* The values the demos store.
Items == 1..MaxItem

\* What a member call hands back to its caller.
Call(op, arg, ok, value, error) ==
    [op |-> op, arg |-> arg, ok |-> ok, value |-> value, error |-> error]

\* No member has been called yet.
NoCall == Call("none", 0, TRUE, 0, "none")

\* Stack(): top_index(0); the slots of data hold no value yet (0).
Stack_ctor == [data |-> [k \in 0..(MaxSize - 1) |-> 0], top_index |-> 0]

\* RingBuffer(): head(0), tail(0), full(false); the slots of buffer hold
\* no value yet (0).
RingBuffer_ctor ==
    [buffer |-> [k \in 0..(Size - 1) |-> 0],
     head |-> 0, tail |-> 0, full |-> FALSE]

\* MemoryPool(): allocated_count(0) and every used[i] = false.
MemoryPool_ctor ==
    [used |-> [k \in 0..(PoolSize - 1) |-> FALSE], allocated_count |-> 0]

\* The state before main() starts its threads.
InitProg(p, producerStart, consumerStart, firstItem) ==
    /\ prog = p
    /\ buffer = <<>>
    /\ producer_done = FALSE
    /\ mutex = NoThread
    /\ cv_not_empty = {}
    /\ cv_not_full = {}
    /\ pc = [t \in Threads |->
               IF t \in ProgProducers(p) THEN producerStart
               ELSE IF t \in ProgConsumers(p) THEN consumerStart
               ELSE "unused"]
    /\ i = [t \in Producers |-> firstItem]
    /\ item = [t \in Consumers |-> -1]
    /\ consumed_count = [t \in Consumers |-> 0]
    /\ popped = <<>>
    /\ pushed = <<>>
    /\ int_stack = Stack_ctor
    /\ ring = RingBuffer_ctor
    /\ sensor_pool = MemoryPool_ctor
    /\ ret = NoCall
    /\ fifo = [retained |-> <<>>, dropped |-> 0]
    /\ live = <<>>

\* Faulty variant: `if (!pred) cv.wait(lock)` in place of the predicate
\* loop: a woken thread goes on to the statement after the wait without
\* evaluating the predicate again.
cv_wait_return_no_recheck(t) ==
    /\ pc[t] = "blocked"
    /\ t \notin cv_not_empty
    /\ t \notin cv_not_full
    /\ mutex = NoThread
    /\ mutex' = t
    /\ pc' = [pc EXCEPT ![t] = IF t \in Producers THEN "push"
                                ELSE IF prog \in {"simple", "simple_mp", "cppq"}
                                     THEN "pop"
                                ELSE "check"]
    /\ UNCHANGED <<containers, prog, buffer, producer_done, cv_not_empty,
                   cv_not_full, i, item, consumed_count, popped, pushed>>

\* Faulty variant: wait_for(lock, timeout) in place of wait(lock): the wait
\* returns when the timer expires, notified or not.
cv_wait_return_timed(t) ==
    /\ pc[t] = "blocked"
    /\ mutex = NoThread
    /\ mutex' = t
    /\ cv_not_empty' = cv_not_empty \ {t}
    /\ cv_not_full' = cv_not_full \ {t}
    /\ pc' = [pc EXCEPT ![t] = "wait"]
    /\ UNCHANGED <<containers, prog, buffer, producer_done, i, item,
                   consumed_count, popped, pushed>>

\* condition_variable::wait(lock) returning: a thread that was notified (or
\* woke spuriously) leaves the wait once it re-acquires the mutex, and the
\* predicate loop of wait(lock, pred) evaluates the predicate again.
cv_wait_return(t) ==
    /\ pc[t] = "blocked"
    /\ t \notin cv_not_empty
    /\ t \notin cv_not_full
    /\ mutex = NoThread
    /\ mutex' = t
    /\ pc' = [pc EXCEPT ![t] = "wait"]
    /\ UNCHANGED <<containers, prog, buffer, producer_done, cv_not_empty,
                   cv_not_full, i, item, consumed_count, popped, pushed>>

\* A spurious wake-up: the C++ standard lets wait(lock) unblock without any
\* notification.
cv_spurious_wakeup(t) ==
    /\ pc[t] = "blocked"
    /\ t \in cv_not_empty \cup cv_not_full
    /\ cv_not_empty' = cv_not_empty \ {t}
    /\ cv_not_full' = cv_not_full \ {t}
    /\ UNCHANGED <<containers, prog, buffer, producer_done, mutex, pc, i,
                   item, consumed_count, popped, pushed>>

\* condition_variable::notify_one(): the waiter sets it may leave behind.
notify_one(cv) ==
    IF cv = {} THEN {{}} ELSE {cv \ {w} : w \in cv}

\* condition_variable::notify_all()
notify_all(cv) == {}

\* ------------------------------------------------------ efficient_version
efficient_Init == InitProg("efficient", "sleep", "lock", 1)

\* The Multiple Producers/Consumers extension of the README: producer()
\* and consumer() each started on several threads, on the same globals.
efficient_mp_Init == InitProg("efficient_mp", "sleep", "lock", 1)

IsEfficient == prog \in {"efficient", "efficient_mp"}

\* NUM_ITEMS as producer() sees it in program p.
efficient_num_items(p) ==
    IF p = "efficient_mp" THEN EXTENSION_NUM_ITEMS ELSE NUM_ITEMS

\* producer: sleep_for before each item
efficient_producer_sleep(t) ==
    /\ IsEfficient /\ t \in ProgProducers(prog)
    /\ pc[t] = "sleep"
    /\ pc' = [pc EXCEPT ![t] = "lock"]
    /\ UNCHANGED <<containers, prog, buffer, producer_done, mutex,
                   cv_not_empty, cv_not_full, i, item, consumed_count, popped,
                   pushed>>

\* producer: std::unique_lock<std::mutex> lock(buffer_mutex)
efficient_producer_lock(t) ==
    /\ IsEfficient /\ t \in ProgProducers(prog)
    /\ pc[t] = "lock"
    /\ mutex = NoThread
    /\ mutex' = t
    /\ pc' = [pc EXCEPT ![t] = "wait"]
    /\ UNCHANGED <<containers, prog, buffer, producer_done, cv_not_empty,
                   cv_not_full, i, item, consumed_count, popped, pushed>>

\* Faulty variant: the capacity test off by one (<= for <).
efficient_not_full_off_by_one == Len(buffer) <= BUFFER_SIZE

\* producer's wait predicate: [] { return buffer.size() < BUFFER_SIZE; }
efficient_not_full == Len(buffer) < BUFFER_SIZE

\* producer: buffer_not_full.wait(lock, pred)
efficient_producer_wait(t) ==
    /\ IsEfficient /\ t \in ProgProducers(prog)
    /\ pc[t] = "wait"
    /\ mutex = t
    /\ IF efficient_not_full
       THEN /\ pc' = [pc EXCEPT ![t] = "push"]
            /\ UNCHANGED <<mutex, cv_not_full>>
       ELSE /\ pc' = [pc EXCEPT ![t] = "blocked"]
            /\ mutex' = NoThread
            /\ cv_not_full' = cv_not_full \cup {t}
    /\ UNCHANGED <<containers, prog, buffer, producer_done, cv_not_empty, i,
                   item, consumed_count, popped, pushed>>

\* producer: buffer.push(i); buffer_not_empty.notify_one(); the lock is
\* released at the end of the loop body; ++i and the loop test.
efficient_producer_push(t) ==
    /\ IsEfficient /\ t \in ProgProducers(prog)
    /\ pc[t] = "push"
    /\ mutex = t
    /\ buffer' = push_back(buffer, i[t])
    /\ pushed' = Append(pushed, i[t])
    /\ cv_not_empty' \in notify_one(cv_not_empty)
    /\ mutex' = NoThread
    /\ i' = [i EXCEPT ![t] = i[t] + 1]
    /\ pc' = [pc EXCEPT ![t] = IF i[t] + 1 <= efficient_num_items(prog)
                                THEN "sleep"
                                ELSE "done_lock"]
    /\ UNCHANGED <<containers, prog, producer_done, cv_not_full, item,
                   consumed_count, popped>>

\* producer: std::lock_guard<std::mutex> lock(buffer_mutex) of the done block
efficient_producer_done_lock(t) ==
    /\ IsEfficient /\ t \in ProgProducers(prog)
    /\ pc[t] = "done_lock"
    /\ mutex = NoThread
    /\ mutex' = t
    /\ pc' = [pc EXCEPT ![t] = "set_done"]
    /\ UNCHANGED <<containers, prog, buffer, producer_done, cv_not_empty,
                   cv_not_full, i, item, consumed_count, popped, pushed>>

\* producer: producer_done = true; the block ends and releases the lock
efficient_producer_set_done(t) ==
    /\ IsEfficient /\ t \in ProgProducers(prog)
    /\ pc[t] = "set_done"
    /\ mutex = t
    /\ producer_done' = TRUE
    /\ mutex' = NoThread
    /\ pc' = [pc EXCEPT ![t] = "notify_all"]
    /\ UNCHANGED <<containers, prog, buffer, cv_not_empty, cv_not_full, i,
                   item, consumed_count, popped, pushed>>

\* producer: buffer_not_empty.notify_all(), then the routine returns
efficient_producer_notify_all(t) ==
    /\ IsEfficient /\ t \in ProgProducers(prog)
    /\ pc[t] = "notify_all"
    /\ cv_not_empty' = notify_all(cv_not_empty)
    /\ pc' = [pc EXCEPT ![t] = "done"]
    /\ UNCHANGED <<containers, prog, buffer, producer_done, mutex,
                   cv_not_full, i, item, consumed_count, popped, pushed>>

\* consumer: std::unique_lock<std::mutex> lock(buffer_mutex) at the loop head
efficient_consumer_lock(t) ==
    /\ IsEfficient /\ t \in ProgConsumers(prog)
    /\ pc[t] = "lock"
    /\ mutex = NoThread
    /\ mutex' = t
    /\ pc' = [pc EXCEPT ![t] = "wait"]
    /\ UNCHANGED <<containers, prog, buffer, producer_done, cv_not_empty,
                   cv_not_full, i, item, consumed_count, popped, pushed>>

\* consumer's wait predicate: [] { return !buffer.empty() || producer_done; }
efficient_not_empty_or_done == buffer # <<>> \/ producer_done

\* consumer: buffer_not_empty.wait(lock, pred)
efficient_consumer_wait(t) ==
    /\ IsEfficient /\ t \in ProgConsumers(prog)
    /\ pc[t] = "wait"
    /\ mutex = t
    /\ IF efficient_not_empty_or_done
       THEN /\ pc' = [pc EXCEPT ![t] = "check"]
            /\ UNCHANGED <<mutex, cv_not_empty>>
       ELSE /\ pc' = [pc EXCEPT ![t] = "blocked"]
            /\ mutex' = NoThread
            /\ cv_not_empty' = cv_not_empty \cup {t}
    /\ UNCHANGED <<containers, prog, buffer, producer_done, cv_not_full, i,
                   item, consumed_count, popped, pushed>>

\* Faulty variant: the consumer forgets to notify buffer_not_full.
efficient_consumer_notify_missing(cv) == {cv}

\* consumer: buffer_not_full.notify_one() after taking an item
efficient_consumer_notify(cv) == notify_one(cv)

\* Faulty variant: lock.unlock() before the processing delay is missing, so
\* the consumer sleeps as the holder of the mutex.
efficient_consumer_check_keeps_lock(t) ==
    /\ IsEfficient /\ t \in ProgConsumers(prog)
    /\ pc[t] = "check"
    /\ mutex = t
    /\ IF buffer # <<>>
       THEN /\ item' = [item EXCEPT ![t] = front(buffer)]
            /\ buffer' = pop_front(buffer)
            /\ consumed_count' = [consumed_count EXCEPT ![t] = @ + 1]
            /\ popped' = Append(popped, [by |-> t, item |-> front(buffer)])
            /\ cv_not_full' \in efficient_consumer_notify(cv_not_full)
            /\ pc' = [pc EXCEPT ![t] = "sleep"]
            /\ UNCHANGED mutex
       ELSE /\ pc' = [pc EXCEPT ![t] = IF producer_done /\ buffer = <<>>
                                       THEN "done" ELSE "lock"]
            /\ mutex' = NoThread
            /\ UNCHANGED <<buffer, item, consumed_count, popped, cv_not_full>>
    /\ UNCHANGED <<containers, prog, producer_done, cv_not_empty, i, pushed>>

\* consumer: the if / else-if after the wait.  Taking an item ends with
\* notify_one on buffer_not_full and lock.unlock(); the break and the fall
\* through both release the lock when `lock` goes out of scope.
efficient_consumer_check(t) ==
    /\ IsEfficient /\ t \in ProgConsumers(prog)
    /\ pc[t] = "check"
    /\ mutex = t
    /\ mutex' = NoThread
    /\ IF buffer # <<>>
       THEN /\ item' = [item EXCEPT ![t] = front(buffer)]
            /\ buffer' = pop_front(buffer)
            /\ consumed_count' = [consumed_count EXCEPT ![t] = @ + 1]
            /\ popped' = Append(popped, [by |-> t, item |-> front(buffer)])
            /\ cv_not_full' \in efficient_consumer_notify(cv_not_full)
            /\ pc' = [pc EXCEPT ![t] = "sleep"]
       ELSE /\ pc' = [pc EXCEPT ![t] = IF producer_done /\ buffer = <<>>
                                       THEN "done" ELSE "lock"]
            /\ UNCHANGED <<buffer, item, consumed_count, popped, cv_not_full>>
    /\ UNCHANGED <<containers, prog, producer_done, cv_not_empty, i, pushed>>

\* consumer: sleep_for after taking an item (the lock is already released)
efficient_consumer_sleep(t) ==
    /\ IsEfficient /\ t \in ProgConsumers(prog)
    /\ pc[t] = "sleep"
    /\ pc' = [pc EXCEPT ![t] = "lock"]
    /\ UNCHANGED <<containers, prog, buffer, producer_done, mutex,
                   cv_not_empty, cv_not_full, i, item, consumed_count, popped,
                   pushed>>

efficient_producer(t) ==
    \/ efficient_producer_sleep(t)
    \/ efficient_producer_lock(t)
    \/ efficient_producer_wait(t)
    \/ efficient_producer_push(t)
    \/ efficient_producer_done_lock(t)
    \/ efficient_producer_set_done(t)
    \/ efficient_producer_notify_all(t)

efficient_consumer(t) ==
    \/ efficient_consumer_lock(t)
    \/ efficient_consumer_wait(t)
    \/ efficient_consumer_check(t)
    \/ efficient_consumer_sleep(t)

efficient_Step(t) ==
    \/ efficient_producer(t)
    \/ efficient_consumer(t)
    \/ (IsEfficient /\ cv_wait_return(t))

efficient_Next ==
    \/ \E t \in Threads : efficient_Step(t)
    \/ \E t \in Threads : IsEfficient /\ cv_spurious_wakeup(t)

SpecEfficient == efficient_Init /\ [][efficient_Next]_vars

\* Fair scheduling: a thread that is able to take a step again and again
\* (taking the mutex included) eventually takes it, so a thread is not
\* starved of the mutex by the other thread re-acquiring it for ever.
\* Spurious wake-ups are never required to happen.
FairSpecEfficient ==
    SpecEfficient /\ \A t \in Threads : SF_vars(efficient_Step(t))

SpecEfficientMP == efficient_mp_Init /\ [][efficient_Next]_vars

\* The extension under the same fair scheduling.
FairSpecEfficientMP ==
    SpecEfficientMP /\ \A t \in Threads : SF_vars(efficient_Step(t))

\* ------------------------------------------- simple demo: ThreadSafeQueue
\* producer(queue, num_items): NUM_ITEMS in the shipped main(), and
\* NUM_ITEMS / NUM_PRODUCERS (integer division) in the Advanced Usage set-up.
simple_num_items(p) ==
    IF p = "simple_mp" THEN NUM_ITEMS \div NUM_PRODUCERS ELSE NUM_ITEMS

simple_producer_start(p) ==
    IF 1 <= simple_num_items(p) THEN "push_lock" ELSE "finish_lock"

\* main() of the simple demo: one producer, NUM_CONSUMERS consumers
simple_Init ==
    InitProg("simple", simple_producer_start("simple"), "pop_lock", 1)

\* main() modified as BUILD_AND_RUN.md's Advanced Usage shows: NUM_PRODUCERS
\* threads each run producer(queue, NUM_ITEMS / NUM_PRODUCERS)
simple_mp_Init ==
    InitProg("simple_mp", simple_producer_start("simple_mp"), "pop_lock", 1)

IsSimple == prog \in {"simple", "simple_mp"}

\* push: std::lock_guard<std::mutex> lock(mutex_)
ThreadSafeQueue_push_lock(t) ==
    /\ IsSimple /\ t \in ProgProducers(prog)
    /\ pc[t] = "push_lock"
    /\ mutex = NoThread
    /\ mutex' = t
    /\ pc' = [pc EXCEPT ![t] = "push"]
    /\ UNCHANGED <<containers, prog, buffer, producer_done, cv_not_empty,
                   cv_not_full, i, item, consumed_count, popped, pushed>>

\* push: queue_.push(item); condition_.notify_one(); return (lock released)
ThreadSafeQueue_push(t) ==
    /\ IsSimple /\ t \in ProgProducers(prog)
    /\ pc[t] = "push"
    /\ mutex = t
    /\ buffer' = push_back(buffer, i[t])
    /\ pushed' = Append(pushed, i[t])
    /\ cv_not_empty' \in notify_one(cv_not_empty)
    /\ mutex' = NoThread
    /\ pc' = [pc EXCEPT ![t] = "sleep"]
    /\ UNCHANGED <<containers, prog, producer_done, cv_not_full, i, item,
                   consumed_count, popped>>

\* producer: sleep_for after the push, ++i and the loop test
simple_producer_sleep(t) ==
    /\ IsSimple /\ t \in ProgProducers(prog)
    /\ pc[t] = "sleep"
    /\ i' = [i EXCEPT ![t] = i[t] + 1]
    /\ pc' = [pc EXCEPT ![t] = IF i[t] + 1 <= simple_num_items(prog)
                                THEN "push_lock" ELSE "finish_lock"]
    /\ UNCHANGED <<containers, prog, buffer, producer_done, mutex,
                   cv_not_empty, cv_not_full, item, consumed_count, popped,
                   pushed>>

\* finish: std::lock_guard<std::mutex> lock(mutex_)
ThreadSafeQueue_finish_lock(t) ==
    /\ IsSimple /\ t \in ProgProducers(prog)
    /\ pc[t] = "finish_lock"
    /\ mutex = NoThread
    /\ mutex' = t
    /\ pc' = [pc EXCEPT ![t] = "finish"]
    /\ UNCHANGED <<containers, prog, buffer, producer_done, cv_not_empty,
                   cv_not_full, i, item, consumed_count, popped, pushed>>

\* finish: condition_.notify_all()
ThreadSafeQueue_finish_notify(cv) == {notify_all(cv)}

\* Faulty variant: finish() toggles the flag instead of setting it.
ThreadSafeQueue_finish_flag_toggled(f) == ~f

\* finish: finished_ = true
ThreadSafeQueue_finish_flag(f) == TRUE

\* finish: finished_ = true; condition_.notify_all(); return (lock released)
ThreadSafeQueue_finish(t) ==
    /\ IsSimple /\ t \in ProgProducers(prog)
    /\ pc[t] = "finish"
    /\ mutex = t
    /\ producer_done' = ThreadSafeQueue_finish_flag(producer_done)
    /\ cv_not_empty' \in ThreadSafeQueue_finish_notify(cv_not_empty)
    /\ mutex' = NoThread
    /\ pc' = [pc EXCEPT ![t] = "done"]
    /\ UNCHANGED <<containers, prog, buffer, cv_not_full, i, item,
                   consumed_count, popped, pushed>>

\* pop: std::unique_lock<std::mutex> lock(mutex_)
ThreadSafeQueue_pop_lock(t) ==
    /\ IsSimple /\ t \in ProgConsumers(prog)
    /\ pc[t] = "pop_lock"
    /\ mutex = NoThread
    /\ mutex' = t
    /\ pc' = [pc EXCEPT ![t] = "wait"]
    /\ UNCHANGED <<containers, prog, buffer, producer_done, cv_not_empty,
                   cv_not_full, i, item, consumed_count, popped, pushed>>

\* Faulty variant: pop() does not wait at all.
ThreadSafeQueue_pop_pred_no_wait == TRUE

\* pop's wait predicate: [this] { return !queue_.empty() || finished_; }
ThreadSafeQueue_pop_pred == buffer # <<>> \/ producer_done

\* pop: condition_.wait(lock, pred)
ThreadSafeQueue_pop_wait(t) ==
    /\ IsSimple /\ t \in ProgConsumers(prog)
    /\ pc[t] = "wait"
    /\ mutex = t
    /\ IF ThreadSafeQueue_pop_pred
       THEN /\ pc' = [pc EXCEPT ![t] = "pop"]
            /\ UNCHANGED <<mutex, cv_not_empty>>
       ELSE /\ pc' = [pc EXCEPT ![t] = "blocked"]
            /\ mutex' = NoThread
            /\ cv_not_empty' = cv_not_empty \cup {t}
    /\ UNCHANGED <<containers, prog, buffer, producer_done, cv_not_full, i,
                   item, consumed_count, popped, pushed>>

\* Faulty variant: pop() reads the back of the queue instead of the front.
ThreadSafeQueue_pop_item_back(q) == q[Len(q)]

\* pop: item = queue_.front()
ThreadSafeQueue_pop_item(q) == front(q)

\* pop: after the wait, take the front item and return true, or return
\* false; either return releases the lock.  A true return enters the
\* consumer's loop body, a false return leaves the loop.
ThreadSafeQueue_pop(t) ==
    /\ IsSimple /\ t \in ProgConsumers(prog)
    /\ pc[t] = "pop"
    /\ mutex = t
    /\ mutex' = NoThread
    /\ IF buffer # <<>>
       THEN /\ item' = [item EXCEPT ![t] = ThreadSafeQueue_pop_item(buffer)]
            /\ buffer' = pop_front(buffer)
            /\ popped' = Append(popped,
                   [by |-> t, item |-> ThreadSafeQueue_pop_item(buffer)])
            /\ pc' = [pc EXCEPT ![t] = "consume"]
       ELSE /\ pc' = [pc EXCEPT ![t] = "done"]
            /\ UNCHANGED <<buffer, item, popped>>
    /\ UNCHANGED <<containers, prog, producer_done, cv_not_empty, cv_not_full,
                   i, consumed_count, pushed>>

\* consumer: count++ and sleep_for in the body of while (queue.pop(item))
simple_consumer_consume(t) ==
    /\ IsSimple /\ t \in ProgConsumers(prog)
    /\ pc[t] = "consume"
    /\ consumed_count' = [consumed_count EXCEPT ![t] = @ + 1]
    /\ pc' = [pc EXCEPT ![t] = "pop_lock"]
    /\ UNCHANGED <<containers, prog, buffer, producer_done, mutex,
                   cv_not_empty, cv_not_full, i, item, popped, pushed>>

simple_producer(t) ==
    \/ ThreadSafeQueue_push_lock(t)
    \/ ThreadSafeQueue_push(t)
    \/ simple_producer_sleep(t)
    \/ ThreadSafeQueue_finish_lock(t)
    \/ ThreadSafeQueue_finish(t)

simple_consumer(t) ==
    \/ ThreadSafeQueue_pop_lock(t)
    \/ ThreadSafeQueue_pop_wait(t)
    \/ ThreadSafeQueue_pop(t)
    \/ simple_consumer_consume(t)

simple_Step(t) ==
    \/ simple_producer(t)
    \/ simple_consumer(t)
    \/ (IsSimple /\ cv_wait_return(t))

simple_Next ==
    \/ \E t \in Threads : simple_Step(t)
    \/ \E t \in Threads : IsSimple /\ cv_spurious_wakeup(t)

SpecSimple == simple_Init /\ [][simple_Next]_vars

SpecSimpleMP == simple_mp_Init /\ [][simple_Next]_vars

\* ThreadSafeQueue under both mains
SpecThreadSafeQueue ==
    (simple_Init \/ simple_mp_Init) /\ [][simple_Next]_vars

\* ------------------------------------- step3: mutex + condition variable
step3_Init == InitProg("step3", "sleep", "lock", 1)

\* producer: sleep_for before each item
step3_producer_sleep(t) ==
    /\ prog = "step3" /\ t \in ProgProducers(prog)
    /\ pc[t] = "sleep"
    /\ pc' = [pc EXCEPT ![t] = "lock"]
    /\ UNCHANGED <<containers, prog, buffer, producer_done, mutex,
                   cv_not_empty, cv_not_full, i, item, consumed_count, popped,
                   pushed>>

\* producer: std::lock_guard<std::mutex> lock(buffer_mutex)
step3_producer_lock(t) ==
    /\ prog = "step3" /\ t \in ProgProducers(prog)
    /\ pc[t] = "lock"
    /\ mutex = NoThread
    /\ mutex' = t
    /\ pc' = [pc EXCEPT ![t] = "push"]
    /\ UNCHANGED <<containers, prog, buffer, producer_done, cv_not_empty,
                   cv_not_full, i, item, consumed_count, popped, pushed>>

\* producer: shared_buffer.push(i); the block ends and releases the lock
step3_producer_push(t) ==
    /\ prog = "step3" /\ t \in ProgProducers(prog)
    /\ pc[t] = "push"
    /\ mutex = t
    /\ buffer' = push_back(buffer, i[t])
    /\ pushed' = Append(pushed, i[t])
    /\ mutex' = NoThread
    /\ pc' = [pc EXCEPT ![t] = "notify_one"]
    /\ UNCHANGED <<containers, prog, producer_done, cv_not_empty, cv_not_full,
                   i, item, consumed_count, popped>>

\* producer: buffer_condition.notify_one() outside the lock; ++i, loop test
step3_producer_notify_one(t) ==
    /\ prog = "step3" /\ t \in ProgProducers(prog)
    /\ pc[t] = "notify_one"
    /\ cv_not_empty' \in notify_one(cv_not_empty)
    /\ i' = [i EXCEPT ![t] = i[t] + 1]
    /\ pc' = [pc EXCEPT ![t] = IF i[t] + 1 <= NUM_ITEMS THEN "sleep"
                                ELSE "done_lock"]
    /\ UNCHANGED <<containers, prog, buffer, producer_done, mutex,
                   cv_not_full, item, consumed_count, popped, pushed>>

\* Faulty variant: the done block without its lock guard.
step3_producer_done_lock_missing(t) ==
    /\ prog = "step3" /\ t \in ProgProducers(prog)
    /\ pc[t] = "done_lock"
    /\ pc' = [pc EXCEPT ![t] = "set_done"]
    /\ UNCHANGED <<containers, prog, buffer, producer_done, mutex,
                   cv_not_empty, cv_not_full, i, item, consumed_count, popped,
                   pushed>>

\* producer: std::lock_guard<std::mutex> lock(buffer_mutex) of the done block
step3_producer_done_lock(t) ==
    /\ prog = "step3" /\ t \in ProgProducers(prog)
    /\ pc[t] = "done_lock"
    /\ mutex = NoThread
    /\ mutex' = t
    /\ pc' = [pc EXCEPT ![t] = "set_done"]
    /\ UNCHANGED <<containers, prog, buffer, producer_done, cv_not_empty,
                   cv_not_full, i, item, consumed_count, popped, pushed>>

\* producer: producer_done = true; the block ends and releases the lock
step3_producer_set_done(t) ==
    /\ prog = "step3" /\ t \in ProgProducers(prog)
    /\ pc[t] = "set_done"
    /\ mutex = t
    /\ producer_done' = TRUE
    /\ mutex' = NoThread
    /\ pc' = [pc EXCEPT ![t] = "notify_all"]
    /\ UNCHANGED <<containers, prog, buffer, cv_not_empty, cv_not_full, i,
                   item, consumed_count, popped, pushed>>

\* Faulty variant: the final notification wakes one consumer only.
step3_final_notify_only_one(cv) == notify_one(cv)

\* producer: buffer_condition.notify_all() after the done block
step3_final_notify(cv) == {notify_all(cv)}

\* producer: the final notification, then the routine returns
step3_producer_notify_all(t) ==
    /\ prog = "step3" /\ t \in ProgProducers(prog)
    /\ pc[t] = "notify_all"
    /\ cv_not_empty' \in step3_final_notify(cv_not_empty)
    /\ pc' = [pc EXCEPT ![t] = "done"]
    /\ UNCHANGED <<containers, prog, buffer, producer_done, mutex,
                   cv_not_full, i, item, consumed_count, popped, pushed>>

\* consumer: std::unique_lock<std::mutex> lock(buffer_mutex)
step3_consumer_lock(t) ==
    /\ prog = "step3" /\ t \in ProgConsumers(prog)
    /\ pc[t] = "lock"
    /\ mutex = NoThread
    /\ mutex' = t
    /\ pc' = [pc EXCEPT ![t] = "wait"]
    /\ UNCHANGED <<containers, prog, buffer, producer_done, cv_not_empty,
                   cv_not_full, i, item, consumed_count, popped, pushed>>

\* consumer's wait predicate: !shared_buffer.empty() || producer_done
step3_wait_pred == buffer # <<>> \/ producer_done

\* consumer: buffer_condition.wait(lock, pred)
step3_consumer_wait(t) ==
    /\ prog = "step3" /\ t \in ProgConsumers(prog)
    /\ pc[t] = "wait"
    /\ mutex = t
    /\ IF step3_wait_pred
       THEN /\ pc' = [pc EXCEPT ![t] = "check"]
            /\ UNCHANGED <<mutex, cv_not_empty>>
       ELSE /\ pc' = [pc EXCEPT ![t] = "blocked"]
            /\ mutex' = NoThread
            /\ cv_not_empty' = cv_not_empty \cup {t}
    /\ UNCHANGED <<containers, prog, buffer, producer_done, cv_not_full, i,
                   item, consumed_count, popped, pushed>>

\* consumer: the if / else-if after the wait; the block (or the break)
\* releases the lock.  got_item leads to the processing step.
step3_consumer_check(t) ==
    /\ prog = "step3" /\ t \in ProgConsumers(prog)
    /\ pc[t] = "check"
    /\ mutex = t
    /\ mutex' = NoThread
    /\ IF buffer # <<>>
       THEN /\ item' = [item EXCEPT ![t] = front(buffer)]
            /\ buffer' = pop_front(buffer)
            /\ popped' = Append(popped, [by |-> t, item |-> front(buffer)])
            /\ pc' = [pc EXCEPT ![t] = "process"]
       ELSE /\ pc' = [pc EXCEPT ![t] = IF producer_done THEN "done"
                                       ELSE "lock"]
            /\ UNCHANGED <<buffer, item, popped>>
    /\ UNCHANGED <<containers, prog, producer_done, cv_not_empty, cv_not_full,
                   i, consumed_count, pushed>>

\* consumer: if (got_item) { consumed_count++; sleep_for } outside the lock
step3_consumer_process(t) ==
    /\ prog = "step3" /\ t \in ProgConsumers(prog)
    /\ pc[t] = "process"
    /\ consumed_count' = [consumed_count EXCEPT ![t] = @ + 1]
    /\ pc' = [pc EXCEPT ![t] = "lock"]
    /\ UNCHANGED <<containers, prog, buffer, producer_done, mutex,
                   cv_not_empty, cv_not_full, i, item, popped, pushed>>

step3_producer(t) ==
    \/ step3_producer_sleep(t)
    \/ step3_producer_lock(t)
    \/ step3_producer_push(t)
    \/ step3_producer_notify_one(t)
    \/ step3_producer_done_lock(t)
    \/ step3_producer_set_done(t)
    \/ step3_producer_notify_all(t)

step3_consumer(t) ==
    \/ step3_consumer_lock(t)
    \/ step3_consumer_wait(t)
    \/ step3_consumer_check(t)
    \/ step3_consumer_process(t)

step3_Step(t) ==
    \/ step3_producer(t)
    \/ step3_consumer(t)
    \/ (prog = "step3" /\ cv_wait_return(t))

step3_Next ==
    \/ \E t \in Threads : step3_Step(t)
    \/ \E t \in Threads : prog = "step3" /\ cv_spurious_wakeup(t)

SpecStep3 == step3_Init /\ [][step3_Next]_vars

\* The two shipped programs with several consumers on one condition
\* variable (step3 and the simple demo), under fair scheduling: a thread
\* that stays able to take a step eventually takes it.
FairSpecCondVar ==
    /\ step3_Init \/ simple_Init
    /\ [][step3_Next \/ simple_Next]_vars
    /\ \A t \in Threads : WF_vars(step3_Step(t) \/ simple_Step(t))

\* -------------------------------------------- step2: mutex and polling
step2_Init == InitProg("step2", "sleep", "lock", 1)

\* producer: sleep_for before each item
step2_producer_sleep(t) ==
    /\ prog = "step2" /\ t \in ProgProducers(prog)
    /\ pc[t] = "sleep"
    /\ pc' = [pc EXCEPT ![t] = "lock"]
    /\ UNCHANGED <<containers, prog, buffer, producer_done, mutex,
                   cv_not_empty, cv_not_full, i, item, consumed_count, popped,
                   pushed>>

\* producer: std::lock_guard<std::mutex> lock(buffer_mutex)
step2_producer_lock(t) ==
    /\ prog = "step2" /\ t \in ProgProducers(prog)
    /\ pc[t] = "lock"
    /\ mutex = NoThread
    /\ mutex' = t
    /\ pc' = [pc EXCEPT ![t] = "push"]
    /\ UNCHANGED <<containers, prog, buffer, producer_done, cv_not_empty,
                   cv_not_full, i, item, consumed_count, popped, pushed>>

\* producer: shared_buffer.push(i); the block releases the lock; ++i, test
step2_producer_push(t) ==
    /\ prog = "step2" /\ t \in ProgProducers(prog)
    /\ pc[t] = "push"
    /\ mutex = t
    /\ buffer' = push_back(buffer, i[t])
    /\ pushed' = Append(pushed, i[t])
    /\ mutex' = NoThread
    /\ i' = [i EXCEPT ![t] = i[t] + 1]
    /\ pc' = [pc EXCEPT ![t] = IF i[t] + 1 <= NUM_ITEMS THEN "sleep"
                                ELSE "done_lock"]
    /\ UNCHANGED <<containers, prog, producer_done, cv_not_empty, cv_not_full,
                   item, consumed_count, popped>>

\* producer: std::lock_guard<std::mutex> lock(buffer_mutex) of the done block
step2_producer_done_lock(t) ==
    /\ prog = "step2" /\ t \in ProgProducers(prog)
    /\ pc[t] = "done_lock"
    /\ mutex = NoThread
    /\ mutex' = t
    /\ pc' = [pc EXCEPT ![t] = "set_done"]
    /\ UNCHANGED <<containers, prog, buffer, producer_done, cv_not_empty,
                   cv_not_full, i, item, consumed_count, popped, pushed>>

\* producer: producer_done = true; the block releases the lock; return
step2_producer_set_done(t) ==
    /\ prog = "step2" /\ t \in ProgProducers(prog)
    /\ pc[t] = "set_done"
    /\ mutex = t
    /\ producer_done' = TRUE
    /\ mutex' = NoThread
    /\ pc' = [pc EXCEPT ![t] = "done"]
    /\ UNCHANGED <<containers, prog, buffer, cv_not_empty, cv_not_full, i,
                   item, consumed_count, popped, pushed>>

\* consumer: std::lock_guard<std::mutex> lock(buffer_mutex)
step2_consumer_lock(t) ==
    /\ prog = "step2" /\ t \in ProgConsumers(prog)
    /\ pc[t] = "lock"
    /\ mutex = NoThread
    /\ mutex' = t
    /\ pc' = [pc EXCEPT ![t] = "check"]
    /\ UNCHANGED <<containers, prog, buffer, producer_done, cv_not_empty,
                   cv_not_full, i, item, consumed_count, popped, pushed>>

\* Faulty variant: the consumer exits on an empty buffer without reading
\* producer_done.
step2_should_exit_when_empty == TRUE

\* consumer: else if (producer_done) should_exit = true
step2_should_exit == producer_done

\* consumer: the locked block (take an item, or note should_exit), the
\* block releases the lock, then if (should_exit) break
step2_consumer_check(t) ==
    /\ prog = "step2" /\ t \in ProgConsumers(prog)
    /\ pc[t] = "check"
    /\ mutex = t
    /\ mutex' = NoThread
    /\ IF buffer # <<>>
       THEN /\ item' = [item EXCEPT ![t] = front(buffer)]
            /\ buffer' = pop_front(buffer)
            /\ popped' = Append(popped, [by |-> t, item |-> front(buffer)])
            /\ pc' = [pc EXCEPT ![t] = "process"]
       ELSE /\ pc' = [pc EXCEPT ![t] = IF step2_should_exit THEN "done"
                                       ELSE "poll"]
            /\ UNCHANGED <<buffer, item, popped>>
    /\ UNCHANGED <<containers, prog, producer_done, cv_not_empty, cv_not_full,
                   i, consumed_count, pushed>>

\* consumer: if (got_item) { consumed_count++; sleep_for(150ms) }
step2_consumer_process(t) ==
    /\ prog = "step2" /\ t \in ProgConsumers(prog)
    /\ pc[t] = "process"
    /\ consumed_count' = [consumed_count EXCEPT ![t] = @ + 1]
    /\ pc' = [pc EXCEPT ![t] = "lock"]
    /\ UNCHANGED <<containers, prog, buffer, producer_done, mutex,
                   cv_not_empty, cv_not_full, i, item, popped, pushed>>

\* consumer: else { sleep_for(10ms) }, the busy-waiting delay
step2_consumer_poll(t) ==
    /\ prog = "step2" /\ t \in ProgConsumers(prog)
    /\ pc[t] = "poll"
    /\ pc' = [pc EXCEPT ![t] = "lock"]
    /\ UNCHANGED <<containers, prog, buffer, producer_done, mutex,
                   cv_not_empty, cv_not_full, i, item, consumed_count, popped,
                   pushed>>

step2_producer(t) ==
    \/ step2_producer_sleep(t)
    \/ step2_producer_lock(t)
    \/ step2_producer_push(t)
    \/ step2_producer_done_lock(t)
    \/ step2_producer_set_done(t)

step2_consumer(t) ==
    \/ step2_consumer_lock(t)
    \/ step2_consumer_check(t)
    \/ step2_consumer_process(t)
    \/ step2_consumer_poll(t)

step2_Step(t) ==
    \/ step2_producer(t)
    \/ step2_consumer(t)

step2_Next == \E t \in Threads : step2_Step(t)

SpecStep2 == step2_Init /\ [][step2_Next]_vars

\* step2 under fair scheduling: a thread that is able to take a step again
\* and again (the mutex keeps being released) eventually takes it.
FairSpecStep2 ==
    /\ SpecStep2
    /\ \A t \in Threads : SF_vars(step2_Step(t))

\* ---------------------------------- mutex_only_version: busy-waiting
mutex_only_Init == InitProg("mutex_only", "sleep", "lock", 1)

\* producer: sleep_for before each item
mutex_only_producer_sleep(t) ==
    /\ prog = "mutex_only" /\ t \in ProgProducers(prog)
    /\ pc[t] = "sleep"
    /\ pc' = [pc EXCEPT ![t] = "lock"]
    /\ UNCHANGED <<containers, prog, buffer, producer_done, mutex,
                   cv_not_empty, cv_not_full, i, item, consumed_count, popped,
                   pushed>>

\* producer: std::lock_guard<std::mutex> lock(buffer_mutex) in while (true)
mutex_only_producer_lock(t) ==
    /\ prog = "mutex_only" /\ t \in ProgProducers(prog)
    /\ pc[t] = "lock"
    /\ mutex = NoThread
    /\ mutex' = t
    /\ pc' = [pc EXCEPT ![t] = "try_push"]
    /\ UNCHANGED <<containers, prog, buffer, producer_done, cv_not_empty,
                   cv_not_full, i, item, consumed_count, popped, pushed>>

\* Faulty variant: no retry loop, a full buffer makes the producer go on to
\* its next item.
mutex_only_producer_try_push_no_retry(t) ==
    /\ prog = "mutex_only" /\ t \in ProgProducers(prog)
    /\ pc[t] = "try_push"
    /\ mutex = t
    /\ mutex' = NoThread
    /\ IF Len(buffer) < BUFFER_SIZE
       THEN /\ buffer' = push_back(buffer, i[t])
            /\ pushed' = Append(pushed, i[t])
       ELSE UNCHANGED <<buffer, pushed>>
    /\ i' = [i EXCEPT ![t] = i[t] + 1]
    /\ pc' = [pc EXCEPT ![t] = IF i[t] + 1 <= NUM_ITEMS THEN "sleep"
                                ELSE "set_done"]
    /\ UNCHANGED <<containers, prog, producer_done, cv_not_empty, cv_not_full,
                   item, consumed_count, popped>>

\* producer: if (buffer.size() < BUFFER_SIZE) { push; break; } and the lock
\* guard's release; a full buffer loops back to take the lock again.
mutex_only_producer_try_push(t) ==
    /\ prog = "mutex_only" /\ t \in ProgProducers(prog)
    /\ pc[t] = "try_push"
    /\ mutex = t
    /\ mutex' = NoThread
    /\ IF Len(buffer) < BUFFER_SIZE
       THEN /\ buffer' = push_back(buffer, i[t])
            /\ pushed' = Append(pushed, i[t])
            /\ i' = [i EXCEPT ![t] = i[t] + 1]
            /\ pc' = [pc EXCEPT ![t] = IF i[t] + 1 <= NUM_ITEMS THEN "sleep"
                                        ELSE "set_done"]
       ELSE /\ pc' = [pc EXCEPT ![t] = "lock"]
            /\ UNCHANGED <<buffer, pushed, i>>
    /\ UNCHANGED <<containers, prog, producer_done, cv_not_empty, cv_not_full,
                   item, consumed_count, popped>>

\* Faulty variant: the producer returns without setting producer_done.
mutex_only_producer_set_done_missing(t) ==
    /\ prog = "mutex_only" /\ t \in ProgProducers(prog)
    /\ pc[t] = "set_done"
    /\ pc' = [pc EXCEPT ![t] = "done"]
    /\ UNCHANGED <<containers, prog, buffer, producer_done, mutex,
                   cv_not_empty, cv_not_full, i, item, consumed_count, popped,
                   pushed>>

\* producer: producer_done = true (std::atomic<bool>, written without the
\* lock), then the routine returns
mutex_only_producer_set_done(t) ==
    /\ prog = "mutex_only" /\ t \in ProgProducers(prog)
    /\ pc[t] = "set_done"
    /\ producer_done' = TRUE
    /\ pc' = [pc EXCEPT ![t] = "done"]
    /\ UNCHANGED <<containers, prog, buffer, mutex, cv_not_empty, cv_not_full,
                   i, item, consumed_count, popped, pushed>>

\* consumer: std::lock_guard<std::mutex> lock(buffer_mutex) in while (true)
mutex_only_consumer_lock(t) ==
    /\ prog = "mutex_only" /\ t \in ProgConsumers(prog)
    /\ pc[t] = "lock"
    /\ mutex = NoThread
    /\ mutex' = t
    /\ pc' = [pc EXCEPT ![t] = "check"]
    /\ UNCHANGED <<containers, prog, buffer, producer_done, cv_not_empty,
                   cv_not_full, i, item, consumed_count, popped, pushed>>

\* consumer: if (!buffer.empty()) { front; pop; consumed_count++ }; an
\* empty buffer goes on to read producer_done
mutex_only_consumer_check(t) ==
    /\ prog = "mutex_only" /\ t \in ProgConsumers(prog)
    /\ pc[t] = "check"
    /\ mutex = t
    /\ IF buffer # <<>>
       THEN /\ item' = [item EXCEPT ![t] = front(buffer)]
            /\ buffer' = pop_front(buffer)
            /\ consumed_count' = [consumed_count EXCEPT ![t] = @ + 1]
            /\ popped' = Append(popped, [by |-> t, item |-> front(buffer)])
            /\ pc' = [pc EXCEPT ![t] = "sleep"]
       ELSE /\ pc' = [pc EXCEPT ![t] = "check_done"]
            /\ UNCHANGED <<buffer, item, consumed_count, popped>>
    /\ UNCHANGED <<containers, prog, producer_done, mutex, cv_not_empty,
                   cv_not_full, i, pushed>>

\* consumer: else if (producer_done) break; the break destroys the lock guard
mutex_only_consumer_check_done(t) ==
    /\ prog = "mutex_only" /\ t \in ProgConsumers(prog)
    /\ pc[t] = "check_done"
    /\ mutex = t
    /\ IF producer_done
       THEN /\ mutex' = NoThread
            /\ pc' = [pc EXCEPT ![t] = "done"]
       ELSE /\ pc' = [pc EXCEPT ![t] = "sleep"]
            /\ UNCHANGED mutex
    /\ UNCHANGED <<containers, prog, buffer, producer_done, cv_not_empty,
                   cv_not_full, i, item, consumed_count, popped, pushed>>

\* consumer: sleep_for(1ms) at the end of the loop body, inside the lock
\* guard's scope; the guard releases the lock when the body ends
mutex_only_consumer_sleep(t) ==
    /\ prog = "mutex_only" /\ t \in ProgConsumers(prog)
    /\ pc[t] = "sleep"
    /\ mutex = t
    /\ mutex' = NoThread
    /\ pc' = [pc EXCEPT ![t] = "lock"]
    /\ UNCHANGED <<containers, prog, buffer, producer_done, cv_not_empty,
                   cv_not_full, i, item, consumed_count, popped, pushed>>

mutex_only_producer(t) ==
    \/ mutex_only_producer_sleep(t)
    \/ mutex_only_producer_lock(t)
    \/ mutex_only_producer_try_push(t)
    \/ mutex_only_producer_set_done(t)

mutex_only_consumer(t) ==
    \/ mutex_only_consumer_lock(t)
    \/ mutex_only_consumer_check(t)
    \/ mutex_only_consumer_check_done(t)
    \/ mutex_only_consumer_sleep(t)

mutex_only_Step(t) ==
    \/ mutex_only_producer(t)
    \/ mutex_only_consumer(t)

mutex_only_Next == \E t \in Threads : mutex_only_Step(t)

SpecMutexOnly == mutex_only_Init /\ [][mutex_only_Next]_vars

\* The two busy-waiting programs (step2 and mutex_only_version) under fair
\* scheduling: a thread that is able to take a step again and again (the
\* mutex keeps being released) eventually takes it.
FairSpecBusyWait ==
    /\ step2_Init \/ mutex_only_Init
    /\ [][step2_Next \/ mutex_only_Next]_vars
    /\ \A t \in Threads : SF_vars(step2_Step(t) \/ mutex_only_Step(t))

\* ------------------------- cpp-concurrency-demo/thread_safe_queue.cpp
\* producer() pushes 0 .. NUM_ITEMS-1 and consumer() calls pop() NUM_ITEMS
\* times; consumed_count is the consumer's loop counter i.
cppq_Init ==
    InitProg("cppq", IF 0 < NUM_ITEMS THEN "push_lock" ELSE "done",
             IF 0 < NUM_ITEMS THEN "pop_lock" ELSE "done", 0)

\* push: std::lock_guard<std::mutex> lock(mtx)
cppq_push_lock(t) ==
    /\ prog = "cppq" /\ t \in ProgProducers(prog)
    /\ pc[t] = "push_lock"
    /\ mutex = NoThread
    /\ mutex' = t
    /\ pc' = [pc EXCEPT ![t] = "push"]
    /\ UNCHANGED <<containers, prog, buffer, producer_done, cv_not_empty,
                   cv_not_full, i, item, consumed_count, popped, pushed>>

\* push: q.push(value); cv.notify_one(); return; then ++i and the loop test
cppq_push(t) ==
    /\ prog = "cppq" /\ t \in ProgProducers(prog)
    /\ pc[t] = "push"
    /\ mutex = t
    /\ buffer' = push_back(buffer, i[t])
    /\ pushed' = Append(pushed, i[t])
    /\ cv_not_empty' \in notify_one(cv_not_empty)
    /\ mutex' = NoThread
    /\ i' = [i EXCEPT ![t] = i[t] + 1]
    /\ pc' = [pc EXCEPT ![t] = IF i[t] + 1 < NUM_ITEMS THEN "push_lock"
                                ELSE "done"]
    /\ UNCHANGED <<containers, prog, producer_done, cv_not_full, item,
                   consumed_count, popped>>

\* pop: std::unique_lock<std::mutex> lock(mtx)
cppq_pop_lock(t) ==
    /\ prog = "cppq" /\ t \in ProgConsumers(prog)
    /\ pc[t] = "pop_lock"
    /\ mutex = NoThread
    /\ mutex' = t
    /\ pc' = [pc EXCEPT ![t] = "wait"]
    /\ UNCHANGED <<containers, prog, buffer, producer_done, cv_not_empty,
                   cv_not_full, i, item, consumed_count, popped, pushed>>

\* pop: cv.wait(lock, [this]{ return !q.empty(); })
cppq_pop_wait(t) ==
    /\ prog = "cppq" /\ t \in ProgConsumers(prog)
    /\ pc[t] = "wait"
    /\ mutex = t
    /\ IF buffer # <<>>
       THEN /\ pc' = [pc EXCEPT ![t] = "pop"]
            /\ UNCHANGED <<mutex, cv_not_empty>>
       ELSE /\ pc' = [pc EXCEPT ![t] = "blocked"]
            /\ mutex' = NoThread
            /\ cv_not_empty' = cv_not_empty \cup {t}
    /\ UNCHANGED <<containers, prog, buffer, producer_done, cv_not_full, i,
                   item, consumed_count, popped, pushed>>

\* pop: value = q.front(); q.pop(); return value; then the consumer's ++i
\* and loop test
cppq_pop(t) ==
    /\ prog = "cppq" /\ t \in ProgConsumers(prog)
    /\ pc[t] = "pop"
    /\ mutex = t
    /\ item' = [item EXCEPT ![t] = front(buffer)]
    /\ buffer' = pop_front(buffer)
    /\ popped' = Append(popped, [by |-> t, item |-> front(buffer)])
    /\ mutex' = NoThread
    /\ consumed_count' = [consumed_count EXCEPT ![t] = @ + 1]
    /\ pc' = [pc EXCEPT ![t] = IF consumed_count[t] + 1 < NUM_ITEMS
                                THEN "pop_lock" ELSE "done"]
    /\ UNCHANGED <<containers, prog, producer_done, cv_not_empty, cv_not_full,
                   i, pushed>>

cppq_Step(t) ==
    \/ cppq_push_lock(t)
    \/ cppq_push(t)
    \/ cppq_pop_lock(t)
    \/ cppq_pop_wait(t)
    \/ cppq_pop(t)
    \/ (prog = "cppq" /\ cv_wait_return(t))

cppq_Next ==
    \/ \E t \in Threads : cppq_Step(t)
    \/ \E t \in Threads : prog = "cppq" /\ cv_spurious_wakeup(t)

SpecCppQueue == cppq_Init /\ [][cppq_Next]_vars

\* ------------------------------- step1_broken.cpp: no synchronisation
\* A step is one statement of a thread; no lock orders the statements of
\* different threads.  std::queue is not thread-safe, and front() or pop()
\* on an empty queue is undefined: such a call either goes on (front()
\* yields an indeterminate value, written 0; pop() leaves the empty buffer
\* as it is) or takes the thread to "ub", after which nothing is known of
\* it.  In this program an entry of `popped` is one executed
\* pop(): item is what the consumer read with front(), removed is the
\* element pop() took out of the buffer (0 when the buffer was empty).
step1_Init == InitProg("step1", "sleep", "test", 1)

\* producer: sleep_for before each item
step1_producer_sleep(t) ==
    /\ prog = "step1" /\ t \in ProgProducers(prog)
    /\ pc[t] = "sleep"
    /\ pc' = [pc EXCEPT ![t] = "push"]
    /\ UNCHANGED <<containers, prog, buffer, producer_done, mutex,
                   cv_not_empty, cv_not_full, i, item, consumed_count, popped,
                   pushed>>

\* producer: shared_buffer.push(i); ++i and the loop test
step1_producer_push(t) ==
    /\ prog = "step1" /\ t \in ProgProducers(prog)
    /\ pc[t] = "push"
    /\ buffer' = push_back(buffer, i[t])
    /\ pushed' = Append(pushed, i[t])
    /\ i' = [i EXCEPT ![t] = i[t] + 1]
    /\ pc' = [pc EXCEPT ![t] = IF i[t] + 1 <= NUM_ITEMS THEN "sleep"
                                ELSE "set_done"]
    /\ UNCHANGED <<containers, prog, producer_done, mutex, cv_not_empty,
                   cv_not_full, item, consumed_count, popped>>

\* producer: producer_done = true, then the routine returns
step1_producer_set_done(t) ==
    /\ prog = "step1" /\ t \in ProgProducers(prog)
    /\ pc[t] = "set_done"
    /\ producer_done' = TRUE
    /\ pc' = [pc EXCEPT ![t] = "done"]
    /\ UNCHANGED <<containers, prog, buffer, mutex, cv_not_empty, cv_not_full,
                   i, item, consumed_count, popped, pushed>>

\* Faulty variant: the loop runs only until the producer is done, whatever
\* is left in the buffer.
step1_loop_test_flag_only == ~producer_done

\* consumer: while (!producer_done || !shared_buffer.empty())
step1_loop_test == ~producer_done \/ buffer # <<>>

\* consumer: the while test
step1_consumer_test(t) ==
    /\ prog = "step1" /\ t \in ProgConsumers(prog)
    /\ pc[t] = "test"
    /\ pc' = [pc EXCEPT ![t] = IF step1_loop_test THEN "check" ELSE "done"]
    /\ UNCHANGED <<containers, prog, buffer, producer_done, mutex,
                   cv_not_empty, cv_not_full, i, item, consumed_count, popped,
                   pushed>>

\* consumer: if (!shared_buffer.empty())
step1_consumer_check(t) ==
    /\ prog = "step1" /\ t \in ProgConsumers(prog)
    /\ pc[t] = "check"
    /\ pc' = [pc EXCEPT ![t] = IF buffer # <<>> THEN "front" ELSE "test"]
    /\ UNCHANGED <<containers, prog, buffer, producer_done, mutex,
                   cv_not_empty, cv_not_full, i, item, consumed_count, popped,
                   pushed>>

\* What front() on an empty queue yields when the call goes on: an
\* indeterminate value, written 0 (no item is 0).
step1_front_of_empty == {0}

\* consumer: int item = shared_buffer.front()
step1_consumer_front(t) ==
    /\ prog = "step1" /\ t \in ProgConsumers(prog)
    /\ pc[t] = "front"
    /\ IF buffer # <<>>
       THEN /\ item' = [item EXCEPT ![t] = front(buffer)]
            /\ pc' = [pc EXCEPT ![t] = "pop"]
       ELSE \/ /\ \E v \in step1_front_of_empty :
                     item' = [item EXCEPT ![t] = v]
               /\ pc' = [pc EXCEPT ![t] = "pop"]
            \/ /\ pc' = [pc EXCEPT ![t] = "ub"]
               /\ UNCHANGED item
    /\ UNCHANGED <<containers, prog, buffer, producer_done, mutex,
                   cv_not_empty, cv_not_full, i, consumed_count, popped,
                   pushed>>

\* consumer: shared_buffer.pop()
step1_consumer_pop(t) ==
    /\ prog = "step1" /\ t \in ProgConsumers(prog)
    /\ pc[t] = "pop"
    /\ IF buffer # <<>>
       THEN /\ buffer' = pop_front(buffer)
            /\ popped' = Append(popped, [by |-> t, item |-> item[t],
                                         removed |-> front(buffer)])
            /\ pc' = [pc EXCEPT ![t] = "count"]
       ELSE \/ /\ popped' = Append(popped, [by |-> t, item |-> item[t],
                                            removed |-> 0])
               /\ pc' = [pc EXCEPT ![t] = "count"]
               /\ UNCHANGED buffer
            \/ /\ pc' = [pc EXCEPT ![t] = "ub"]
               /\ UNCHANGED <<buffer, popped>>
    /\ UNCHANGED <<containers, prog, producer_done, mutex, cv_not_empty,
                   cv_not_full, i, item, consumed_count, pushed>>

\* consumer: consumed_count++; sleep_for(150ms); back to the while test
step1_consumer_count(t) ==
    /\ prog = "step1" /\ t \in ProgConsumers(prog)
    /\ pc[t] = "count"
    /\ consumed_count' = [consumed_count EXCEPT ![t] = @ + 1]
    /\ pc' = [pc EXCEPT ![t] = "test"]
    /\ UNCHANGED <<containers, prog, buffer, producer_done, mutex,
                   cv_not_empty, cv_not_full, i, item, popped, pushed>>

step1_producer(t) ==
    \/ step1_producer_sleep(t)
    \/ step1_producer_push(t)
    \/ step1_producer_set_done(t)

step1_consumer(t) ==
    \/ step1_consumer_test(t)
    \/ step1_consumer_check(t)
    \/ step1_consumer_front(t)
    \/ step1_consumer_pop(t)
    \/ step1_consumer_count(t)

step1_Step(t) ==
    \/ step1_producer(t)
    \/ step1_consumer(t)

step1_Next == \E t \in Threads : step1_Step(t)

SpecStep1 == step1_Init /\ [][step1_Next]_vars

\* ------------------------------ buggy_version: no synchronisation
\* One producer and one consumer; a step is one statement of a thread.
\* With a single consumer nothing empties the buffer between the
\* consumer's empty() test and its front() and pop().
buggy_Init == InitProg("buggy", "sleep", "test", 1)

\* producer: sleep_for before each item
buggy_producer_sleep(t) ==
    /\ prog = "buggy" /\ t \in ProgProducers(prog)
    /\ pc[t] = "sleep"
    /\ pc' = [pc EXCEPT ![t] = "check"]
    /\ UNCHANGED <<containers, prog, buffer, producer_done, mutex,
                   cv_not_empty, cv_not_full, i, item, consumed_count, popped,
                   pushed>>

\* Faulty variant: the capacity test off by one (<= for <).
buggy_has_room_off_by_one == Len(buffer) <= BUFFER_SIZE

\* producer: buffer.size() < BUFFER_SIZE
buggy_has_room == Len(buffer) < BUFFER_SIZE

\* producer: if (buffer.size() < BUFFER_SIZE); when the test fails the loop
\* goes on with ++i, and item i is never pushed
buggy_producer_check(t) ==
    /\ prog = "buggy" /\ t \in ProgProducers(prog)
    /\ pc[t] = "check"
    /\ IF buggy_has_room
       THEN /\ pc' = [pc EXCEPT ![t] = "push"]
            /\ UNCHANGED i
       ELSE /\ i' = [i EXCEPT ![t] = i[t] + 1]
            /\ pc' = [pc EXCEPT ![t] = IF i[t] + 1 <= NUM_ITEMS THEN "sleep"
                                        ELSE "set_done"]
    /\ UNCHANGED <<containers, prog, buffer, producer_done, mutex,
                   cv_not_empty, cv_not_full, item, consumed_count, popped,
                   pushed>>

\* producer: buffer.push(i); ++i and the loop test
buggy_producer_push(t) ==
    /\ prog = "buggy" /\ t \in ProgProducers(prog)
    /\ pc[t] = "push"
    /\ buffer' = push_back(buffer, i[t])
    /\ pushed' = Append(pushed, i[t])
    /\ i' = [i EXCEPT ![t] = i[t] + 1]
    /\ pc' = [pc EXCEPT ![t] = IF i[t] + 1 <= NUM_ITEMS THEN "sleep"
                                ELSE "set_done"]
    /\ UNCHANGED <<containers, prog, producer_done, mutex, cv_not_empty,
                   cv_not_full, item, consumed_count, popped>>

\* producer: producer_done = true, then the routine returns
buggy_producer_set_done(t) ==
    /\ prog = "buggy" /\ t \in ProgProducers(prog)
    /\ pc[t] = "set_done"
    /\ producer_done' = TRUE
    /\ pc' = [pc EXCEPT ![t] = "done"]
    /\ UNCHANGED <<containers, prog, buffer, mutex, cv_not_empty, cv_not_full,
                   i, item, consumed_count, popped, pushed>>

\* consumer: while (!producer_done || !buffer.empty())
buggy_consumer_test(t) ==
    /\ prog = "buggy" /\ t \in ProgConsumers(prog)
    /\ pc[t] = "test"
    /\ pc' = [pc EXCEPT ![t] = IF ~producer_done \/ buffer # <<>>
                                THEN "check" ELSE "done"]
    /\ UNCHANGED <<containers, prog, buffer, producer_done, mutex,
                   cv_not_empty, cv_not_full, i, item, consumed_count, popped,
                   pushed>>

\* consumer: if (!buffer.empty())
buggy_consumer_check(t) ==
    /\ prog = "buggy" /\ t \in ProgConsumers(prog)
    /\ pc[t] = "check"
    /\ pc' = [pc EXCEPT ![t] = IF buffer # <<>> THEN "front" ELSE "test"]
    /\ UNCHANGED <<containers, prog, buffer, producer_done, mutex,
                   cv_not_empty, cv_not_full, i, item, consumed_count, popped,
                   pushed>>

\* consumer: int item = buffer.front()
buggy_consumer_front(t) ==
    /\ prog = "buggy" /\ t \in ProgConsumers(prog)
    /\ pc[t] = "front"
    /\ item' = [item EXCEPT ![t] = front(buffer)]
    /\ pc' = [pc EXCEPT ![t] = "pop"]
    /\ UNCHANGED <<containers, prog, buffer, producer_done, mutex,
                   cv_not_empty, cv_not_full, i, consumed_count, popped,
                   pushed>>

\* consumer: buffer.pop(); consumed_count++; sleep_for; back to the test
buggy_consumer_pop(t) ==
    /\ prog = "buggy" /\ t \in ProgConsumers(prog)
    /\ pc[t] = "pop"
    /\ popped' = Append(popped, [by |-> t, item |-> item[t]])
    /\ buffer' = pop_front(buffer)
    /\ consumed_count' = [consumed_count EXCEPT ![t] = @ + 1]
    /\ pc' = [pc EXCEPT ![t] = "test"]
    /\ UNCHANGED <<containers, prog, producer_done, mutex, cv_not_empty,
                   cv_not_full, i, item, pushed>>

buggy_Step(t) ==
    \/ buggy_producer_sleep(t)
    \/ buggy_producer_check(t)
    \/ buggy_producer_push(t)
    \/ buggy_producer_set_done(t)
    \/ buggy_consumer_test(t)
    \/ buggy_consumer_check(t)
    \/ buggy_consumer_front(t)
    \/ buggy_consumer_pop(t)

buggy_Next == \E t \in Threads : buggy_Step(t)

SpecBuggy == buggy_Init /\ [][buggy_Next]_vars

\* ------------------------- cpp-concurrency-demo/race_condition.cpp
\* producer() pushes 0 .. NUM_ITEMS-1 under the lock; consumer() makes
\* NUM_ITEMS locked attempts and takes an item only when the queue is not
\* empty.  consumed_count is the consumer's loop counter i (its attempts);
\* the values it consumed are the entries of `popped`.
race_condition_Init ==
    InitProg("race_condition", IF 0 < NUM_ITEMS THEN "lock" ELSE "done",
             IF 0 < NUM_ITEMS THEN "lock" ELSE "done", 0)

\* producer, consumer: std::lock_guard<std::mutex> lock(queueMutex)
race_condition_lock(t) ==
    /\ prog = "race_condition" /\ t \in ProgThreads(prog)
    /\ pc[t] = "lock"
    /\ mutex = NoThread
    /\ mutex' = t
    /\ pc' = [pc EXCEPT ![t] = IF t \in Producers THEN "push" ELSE "check"]
    /\ UNCHANGED <<containers, prog, buffer, producer_done, cv_not_empty,
                   cv_not_full, i, item, consumed_count, popped, pushed>>

\* producer: sharedQueue.push(i); the guard releases the lock; ++i, test
race_condition_producer_push(t) ==
    /\ prog = "race_condition" /\ t \in ProgProducers(prog)
    /\ pc[t] = "push"
    /\ mutex = t
    /\ buffer' = push_back(buffer, i[t])
    /\ pushed' = Append(pushed, i[t])
    /\ mutex' = NoThread
    /\ i' = [i EXCEPT ![t] = i[t] + 1]
    /\ pc' = [pc EXCEPT ![t] = IF i[t] + 1 < NUM_ITEMS THEN "lock"
                                ELSE "done"]
    /\ UNCHANGED <<containers, prog, producer_done, cv_not_empty, cv_not_full,
                   item, consumed_count, popped>>

\* consumer: if (!sharedQueue.empty()) { value = front(); pop(); }; the
\* guard releases the lock; ++i and the loop test
race_condition_consumer_check(t) ==
    /\ prog = "race_condition" /\ t \in ProgConsumers(prog)
    /\ pc[t] = "check"
    /\ mutex = t
    /\ mutex' = NoThread
    /\ IF buffer # <<>>
       THEN /\ item' = [item EXCEPT ![t] = front(buffer)]
            /\ buffer' = pop_front(buffer)
            /\ popped' = Append(popped, [by |-> t, item |-> front(buffer)])
       ELSE UNCHANGED <<buffer, item, popped>>
    /\ consumed_count' = [consumed_count EXCEPT ![t] = @ + 1]
    /\ pc' = [pc EXCEPT ![t] = IF consumed_count[t] + 1 < NUM_ITEMS
                                THEN "lock" ELSE "done"]
    /\ UNCHANGED <<containers, prog, producer_done, cv_not_empty, cv_not_full,
                   i, pushed>>

race_condition_Step(t) ==
    \/ race_condition_lock(t)
    \/ race_condition_producer_push(t)
    \/ race_condition_consumer_check(t)

race_condition_Next == \E t \in Threads : race_condition_Step(t)

SpecRaceCondition == race_condition_Init /\ [][race_condition_Next]_vars

\* ------------------------------------ class_templates.cpp: Stack<T, N>
\* bool empty() const
Stack_empty(s) == s.top_index = 0

\* size_t size() const
Stack_size(s) == s.top_index

\* Faulty variant: the capacity test of push() reads `top_index > MaxSize`,
\* so a push on a full stack gets past it and advances top_index.
Stack_push_off_by_one(value) ==
    /\ prog = "Stack"
    /\ IF int_stack.top_index > MaxSize
       THEN /\ ret' = Call("push", value, FALSE, 0, "overflow_error")
            /\ UNCHANGED int_stack
       ELSE /\ int_stack' =
                  [data |-> [k \in 0..(MaxSize - 1) |->
                               IF k = int_stack.top_index THEN value
                               ELSE int_stack.data[k]],
                   top_index |-> int_stack.top_index + 1]
            /\ ret' = Call("push", value, TRUE, 0, "none")
    /\ UNCHANGED <<threads_state, ring, sensor_pool, fifo, live>>

\* void push(const T& value): throws std::overflow_error on a full stack,
\* else data[top_index++] = value.
Stack_push(value) ==
    /\ prog = "Stack"
    /\ IF int_stack.top_index >= MaxSize
       THEN /\ ret' = Call("push", value, FALSE, 0, "overflow_error")
            /\ UNCHANGED int_stack
       ELSE /\ int_stack' =
                  [data |-> [int_stack.data EXCEPT
                               ![int_stack.top_index] = value],
                   top_index |-> int_stack.top_index + 1]
            /\ ret' = Call("push", value, TRUE, 0, "none")
    /\ UNCHANGED <<threads_state, ring, sensor_pool, fifo, live>>

\* T pop(): throws std::underflow_error on an empty stack, else
\* return data[--top_index].
Stack_pop ==
    /\ prog = "Stack"
    /\ IF Stack_empty(int_stack)
       THEN /\ ret' = Call("pop", 0, FALSE, 0, "underflow_error")
            /\ UNCHANGED int_stack
       ELSE /\ int_stack' =
                  [int_stack EXCEPT !.top_index = int_stack.top_index - 1]
            /\ ret' = Call("pop", 0, TRUE,
                           int_stack.data[int_stack.top_index - 1], "none")
    /\ UNCHANGED <<threads_state, ring, sensor_pool, fifo, live>>

\* const T& top() const: throws std::underflow_error on an empty stack,
\* else return data[top_index - 1].
Stack_top ==
    /\ prog = "Stack"
    /\ IF Stack_empty(int_stack)
       THEN ret' = Call("top", 0, FALSE, 0, "underflow_error")
       ELSE ret' = Call("top", 0, TRUE,
                        int_stack.data[int_stack.top_index - 1], "none")
    /\ UNCHANGED <<threads_state, int_stack, ring, sensor_pool, fifo, live>>

\* Any member call a user of the stack can make.
Stack_Next ==
    \/ \E value \in Items : Stack_push(value)
    \/ Stack_pop
    \/ Stack_top

SpecStack ==
    InitProg("Stack", "unused", "unused", 1) /\ [][Stack_Next]_vars

\* --------------------------------- embedded_templates: RingBuffer<T, N>
\* bool empty() const
RingBuffer_empty(r) == ~r.full /\ r.head = r.tail

\* bool is_full() const
RingBuffer_is_full(r) == r.full

\* Faulty variant: size() without the wrapped case, head - tail whenever
\* the buffer is not full.
RingBuffer_size_no_wrap(r) ==
    IF r.full THEN Size ELSE r.head - r.tail

\* size_t size() const
RingBuffer_size(r) ==
    IF r.full THEN Size
    ELSE IF r.head >= r.tail THEN r.head - r.tail
    ELSE Size + r.head - r.tail

\* The first-in first-out queue of at most Size items that `fifo` follows:
\* a push appends, displacing the oldest item when Size items are held.
fifo_push(f, v) ==
    IF Len(f.retained) = Size
    THEN [retained |-> Append(Tail(f.retained), v),
          dropped |-> Head(f.retained)]
    ELSE [retained |-> Append(f.retained, v), dropped |-> 0]

\* A pop of that queue removes the oldest item, if there is one.
fifo_pop(f) ==
    IF f.retained = <<>> THEN f
    ELSE [f EXCEPT !.retained = Tail(f.retained)]

\* Faulty variant: push() on a full buffer stores the item but leaves tail
\* where it was.
RingBuffer_push_keeps_tail(v) ==
    /\ prog = "RingBuffer"
    /\ LET head == (ring.head + 1) % Size
       IN  ring' = [buffer |-> [ring.buffer EXCEPT ![ring.head] = v],
                    head |-> head,
                    tail |-> ring.tail,
                    full |-> IF head = ring.tail THEN TRUE ELSE ring.full]
    /\ ret' = Call("push", v, TRUE, 0, "none")
    /\ fifo' = fifo_push(fifo, v)
    /\ UNCHANGED <<threads_state, int_stack, sensor_pool, live>>

\* bool push(const T& item): store at head, advance tail past the
\* overwritten item when full, advance head, set full when head meets tail.
RingBuffer_push(v) ==
    /\ prog = "RingBuffer"
    /\ LET tail == IF ring.full THEN (ring.tail + 1) % Size ELSE ring.tail
           head == (ring.head + 1) % Size
       IN  ring' = [buffer |-> [ring.buffer EXCEPT ![ring.head] = v],
                    head |-> head,
                    tail |-> tail,
                    full |-> IF head = tail THEN TRUE ELSE ring.full]
    /\ ret' = Call("push", v, TRUE, 0, "none")
    /\ fifo' = fifo_push(fifo, v)
    /\ UNCHANGED <<threads_state, int_stack, sensor_pool, live>>

\* bool pop(T& item): false on an empty buffer, else item = buffer[tail],
\* full = false and tail advances.
RingBuffer_pop ==
    /\ prog = "RingBuffer"
    /\ IF RingBuffer_empty(ring)
       THEN /\ ret' = Call("pop", 0, FALSE, 0, "none")
            /\ UNCHANGED ring
       ELSE /\ ret' = Call("pop", 0, TRUE, ring.buffer[ring.tail], "none")
            /\ ring' = [ring EXCEPT !.full = FALSE,
                                    !.tail = (ring.tail + 1) % Size]
    /\ fifo' = fifo_pop(fifo)
    /\ UNCHANGED <<threads_state, int_stack, sensor_pool, live>>

\* bool peek(T& item) const: false on an empty buffer, else
\* item = buffer[tail].
RingBuffer_peek ==
    /\ prog = "RingBuffer"
    /\ IF RingBuffer_empty(ring)
       THEN ret' = Call("peek", 0, FALSE, 0, "none")
       ELSE ret' = Call("peek", 0, TRUE, ring.buffer[ring.tail], "none")
    /\ UNCHANGED <<threads_state, int_stack, ring, sensor_pool, fifo, live>>

\* Any member call a user of the ring buffer can make.
RingBuffer_Next ==
    \/ \E v \in Items : RingBuffer_push(v)
    \/ RingBuffer_pop
    \/ RingBuffer_peek

SpecRingBuffer ==
    InitProg("RingBuffer", "unused", "unused", 1)
    /\ [][RingBuffer_Next]_vars

\* --------------------------------- embedded_templates: MemoryPool<T, N>
\* The T* values a caller can hand to deallocate(): the null pointer, the
\* address of each slot, and the slot-aligned addresses just below the
\* pool and just past its end.
Pointers ==
    {nullptr} \cup {pool_addr + k * sizeof_T : k \in (-1)..PoolSize}

\* The loop of allocate(): the first index from i on whose slot is not
\* used, PoolSize when there is none.
RECURSIVE MemoryPool_first_free(_, _)
MemoryPool_first_free(used, k) ==
    IF k >= PoolSize THEN PoolSize
    ELSE IF ~used[k] THEN k
    ELSE MemoryPool_first_free(used, k + 1)

\* size_t available() const
MemoryPool_available(m) == PoolSize - m.allocated_count

\* size_t allocated() const
MemoryPool_allocated(m) == m.allocated_count

\* Faulty variant: allocate() scans the slots from the last one down and
\* takes the highest-indexed free slot.
MemoryPool_allocate_last_free ==
    /\ prog = "MemoryPool"
    /\ LET free == {k \in 0..(PoolSize - 1) : ~sensor_pool.used[k]}
           index == CHOOSE k \in free : \A j \in free : j <= k
       IN  IF free # {}
           THEN /\ sensor_pool' =
                      [used |-> [sensor_pool.used EXCEPT ![index] = TRUE],
                       allocated_count |-> sensor_pool.allocated_count + 1]
                /\ ret' = Call("allocate", 0, TRUE,
                               pool_addr + index * sizeof_T, "none")
                /\ live' = Append(live, pool_addr + index * sizeof_T)
           ELSE /\ ret' = Call("allocate", 0, FALSE, nullptr,
                               "MemoryPool exhausted!")
                /\ UNCHANGED <<sensor_pool, live>>
    /\ UNCHANGED <<threads_state, int_stack, ring, fifo>>

\* T* allocate(): marks the first slot that is not used and returns its
\* address; reports exhaustion and returns nullptr when every slot is used.
MemoryPool_allocate ==
    /\ prog = "MemoryPool"
    /\ LET index == MemoryPool_first_free(sensor_pool.used, 0)
       IN  IF index < PoolSize
           THEN /\ sensor_pool' =
                      [used |-> [sensor_pool.used EXCEPT ![index] = TRUE],
                       allocated_count |-> sensor_pool.allocated_count + 1]
                /\ ret' = Call("allocate", 0, TRUE,
                               pool_addr + index * sizeof_T, "none")
                /\ live' = Append(live, pool_addr + index * sizeof_T)
           ELSE /\ ret' = Call("allocate", 0, FALSE, nullptr,
                               "MemoryPool exhausted!")
                /\ UNCHANGED <<sensor_pool, live>>
    /\ UNCHANGED <<threads_state, int_stack, ring, fifo>>

\* Faulty variant: deallocate() clears the flag and decrements
\* allocated_count without testing used[index].
MemoryPool_deallocate_unchecked(ptr) ==
    /\ prog = "MemoryPool"
    /\ LET index == (ptr - pool_addr) \div sizeof_T
       IN  IF ptr = nullptr
           THEN /\ ret' = Call("deallocate", ptr, FALSE, 0, "none")
                /\ UNCHANGED sensor_pool
           ELSE IF \/ ptr < pool_addr
                   \/ ptr >= pool_addr + PoolSize * sizeof_T
           THEN /\ ret' = Call("deallocate", ptr, FALSE, 0,
                               "Invalid pointer for deallocation!")
                /\ UNCHANGED sensor_pool
           ELSE /\ sensor_pool' =
                      [used |-> [sensor_pool.used EXCEPT ![index] = FALSE],
                       allocated_count |-> sensor_pool.allocated_count - 1]
                /\ ret' = Call("deallocate", ptr, TRUE, 0, "none")
    /\ live' = SelectSeq(live, LAMBDA q : q # ptr)
    /\ UNCHANGED <<threads_state, int_stack, ring, fifo>>

\* void deallocate(T* ptr): ignores nullptr, reports a pointer outside the
\* pool array, and otherwise frees slot (byte_ptr - pool) / sizeof(T) if
\* it is used.
MemoryPool_deallocate(ptr) ==
    /\ prog = "MemoryPool"
    /\ LET index == (ptr - pool_addr) \div sizeof_T
       IN  IF ptr = nullptr
           THEN /\ ret' = Call("deallocate", ptr, FALSE, 0, "none")
                /\ UNCHANGED sensor_pool
           ELSE IF \/ ptr < pool_addr
                   \/ ptr >= pool_addr + PoolSize * sizeof_T
           THEN /\ ret' = Call("deallocate", ptr, FALSE, 0,
                               "Invalid pointer for deallocation!")
                /\ UNCHANGED sensor_pool
           ELSE IF sensor_pool.used[index]
           THEN /\ sensor_pool' =
                      [used |-> [sensor_pool.used EXCEPT ![index] = FALSE],
                       allocated_count |-> sensor_pool.allocated_count - 1]
                /\ ret' = Call("deallocate", ptr, TRUE, 0, "none")
           ELSE /\ ret' = Call("deallocate", ptr, FALSE, 0, "none")
                /\ UNCHANGED sensor_pool
    /\ live' = SelectSeq(live, LAMBDA q : q # ptr)
    /\ UNCHANGED <<threads_state, int_stack, ring, fifo>>

\* Any member call a user of the pool can make.
MemoryPool_Next ==
    \/ MemoryPool_allocate
    \/ \E ptr \in Pointers : MemoryPool_deallocate(ptr)

SpecMemoryPool ==
    InitProg("MemoryPool", "unused", "unused", 1)
    /\ [][MemoryPool_Next]_vars

\* ------------------------------------------ the synchronised programs
\* Any one of the programs that guard the buffer with a mutex is started.
Init ==
    \/ efficient_Init
    \/ simple_Init
    \/ simple_mp_Init
    \/ step3_Init
    \/ step2_Init
    \/ mutex_only_Init
    \/ cppq_Init

Next ==
    \/ efficient_Next
    \/ simple_Next
    \/ step3_Next
    \/ step2_Next
    \/ mutex_only_Next
    \/ cppq_Next

Spec == Init /\ [][Next]_vars

\* ---------------------------------------------------------- histories
\* The items removed so far, in the order of the removals.
PoppedItems == [k \in 1..Len(popped) |-> popped[k].item]

\* How many removals consumer c made.
PoppedBy(c) == Cardinality({k \in 1..Len(popped) : popped[k].by = c})

\* How many times value v occurs in sequence q.
Occurrences(q, v) == Cardinality({k \in 1..Len(q) : q[k] = v})

RECURSIVE SumCounts(_)
SumCounts(S) ==
    IF S = {} THEN 0
    ELSE LET c == CHOOSE x \in S : TRUE
         IN consumed_count[c] + SumCounts(S \ {c})

TheProducer == <<"producer", 1>>

TheConsumer == <<"consumer", 1>>

\* ------------------------------------------------------------------ C1
\* C1: in efficient_version the buffer never holds more than BUFFER_SIZE
\* items: the producer is about to append only in a state where
\* buffer.size() < BUFFER_SIZE, and completed pushes minus completed pops
\* (which is the buffer's size) never exceeds BUFFER_SIZE.
C1_BoundedBuffer ==
    prog = "efficient" =>
        /\ Len(buffer) <= BUFFER_SIZE
        /\ Len(pushed) - Len(popped) = Len(buffer)
        /\ Len(pushed) - Len(popped) <= BUFFER_SIZE
        /\ \A t \in Producers : pc[t] = "push" => Len(buffer) < BUFFER_SIZE

\* The producer is suspended on buffer_not_full with the buffer full.
C1_Witness ==
    /\ prog = "efficient"
    /\ Len(buffer) = BUFFER_SIZE
    /\ pc[TheProducer] = "blocked"
    /\ TheProducer \in cv_not_full

\* ------------------------------------------------------------------ C2
\* C2: with a single producer (efficient_version, cpp-concurrency-demo's
\* ThreadSafeQueue, step3, the simple demo) the items removed, in removal
\* order, are the items pushed, in push order: the k-th removal returns the
\* k-th pushed item, the removed items followed by the buffer are exactly
\* the pushed items first, first+1, ..., and once every thread has
\* terminated all NUM_ITEMS items have been removed.
C2_FIFO ==
    prog \in {"efficient", "cppq", "step3", "simple"} =>
        LET first == IF prog = "cppq" THEN 0 ELSE 1
        IN /\ PoppedItems \o buffer = pushed
           /\ \A k \in 1..Len(pushed) : pushed[k] = first + k - 1
           /\ \A k \in 1..Len(popped) : popped[k].item = first + k - 1
           /\ AllDone => Len(popped) = NUM_ITEMS

\* Two consumers contended for pop and both took items; all terminated.
C2_Witness ==
    /\ prog = "simple"
    /\ AllDone
    /\ \A c \in Consumers : PoppedBy(c) >= 1

\* ------------------------------------------------------------------ C3
\* C3: in the simple demo, when all threads have terminated every item
\* 1..NUM_ITEMS was returned by pop() to exactly one consumer: the
\* consumers' counts sum to NUM_ITEMS, each count is the number of that
\* consumer's removals, each item was removed exactly once, and the queue
\* is empty.
C3_NoLossNoDuplication ==
    (prog = "simple" /\ AllDone) =>
        /\ SumCounts(Consumers) = NUM_ITEMS
        /\ \A c \in Consumers : consumed_count[c] = PoppedBy(c)
        /\ \A v \in 1..NUM_ITEMS : Occurrences(PoppedItems, v) = 1
        /\ Len(popped) = NUM_ITEMS
        /\ buffer = <<>>

\* All threads terminated and the two consumers shared the items unevenly.
C3_Witness ==
    /\ prog = "simple"
    /\ AllDone
    /\ \E c, d \in Consumers : consumed_count[c] > consumed_count[d]
                               /\ consumed_count[d] >= 1

\* ------------------------------------------------------------------ C4
\* C4: with several producers each running producer(queue, k) on one
\* ThreadSafeQueue, once every thread has terminated the multiset of items
\* returned by pop() equals the multiset of items pushed, and no pushed
\* item is left in the queue.
C4_MultiProducerNoLoss ==
    (prog = "simple_mp" /\ AllDone) =>
        /\ buffer = <<>>
        /\ \A v \in 1..NUM_ITEMS :
               Occurrences(PoppedItems, v) = Occurrences(pushed, v)

\* ------------------------------------------------------------------ C5
\* finish() has been called and the queue is empty.
Drained == IsSimple /\ producer_done /\ buffer = <<>>

\* What a step from a finished and empty queue must keep: the queue stays
\* finished and empty, a pop() that evaluates its wait predicate goes on
\* without waiting, and every pop() that returns returns false.
StaysDrained ==
    /\ producer_done' /\ buffer' = <<>>
    /\ \A c \in Consumers :
          /\ pc[c] = "wait" => pc'[c] \in {"wait", "pop"}
          /\ pc[c] = "pop" => pc'[c] \in {"pop", "done"}
          /\ pc[c] # "consume" => pc'[c] # "consume"
          /\ pc[c] # "blocked" => pc'[c] # "blocked"

\* C5: for ThreadSafeQueue, once finish() has been called and the queue is
\* empty, no consumer is left suspended on the condition variable, every
\* call of pop() returns false without waiting, and this stays so for all
\* later pop() calls by any consumer.
C5_CleanShutdown ==
    /\ [](Drained => cv_not_empty = {})
    /\ [][Drained => StaysDrained]_vars

\* The same statement for the shipped main() alone, where the single
\* producer calls finish() after its last push.
C5_CleanShutdownShipped ==
    /\ []((prog = "simple" /\ Drained) => cv_not_empty = {})
    /\ [][(prog = "simple" /\ Drained) => StaysDrained]_vars

\* ------------------------------------------------------------------ C6
\* C6: pop() returns true only by removing the front item of a non-empty
\* queue, returns false only when the queue is empty and finished_ is true
\* (leaving the queue as it is), and is past its wait only when the queue
\* is non-empty or finished_ is true.
C6_PopOutcome ==
    /\ [](\A c \in Consumers :
             (IsSimple /\ pc[c] = "pop") => (buffer # <<>> \/ producer_done))
    /\ [][\A c \in Consumers :
             (IsSimple /\ pc[c] = "pop" /\ pc'[c] # "pop") =>
                /\ pc'[c] = "consume" =>
                      /\ buffer # <<>>
                      /\ item'[c] = Head(buffer)
                      /\ buffer' = Tail(buffer)
                /\ pc'[c] = "done" =>
                      /\ buffer = <<>>
                      /\ producer_done
                      /\ buffer' = buffer
                /\ pc'[c] \in {"consume", "done"}]_vars

\* One consumer got false from pop() while the other is in its loop body
\* with an item pop() gave it.
C6_Witness ==
    /\ IsSimple
    /\ \E c, d \in Consumers :
          /\ pc[c] = "done"
          /\ pc[d] = "consume" /\ item[d] >= 1

\* ------------------------------------------------------------------ C7
ProducerSignalledDone ==
    /\ prog \in {"step3", "simple"}
    /\ producer_done
    /\ pc[TheProducer] = "done"

\* C7: in step3 and the simple demo, once the producer has set the done
\* flag and issued notify_all, every consumer eventually terminates under
\* fair scheduling.
C7_ConsumersTerminate ==
    ProducerSignalledDone ~> (\A c \in Consumers : pc[c] = "done")

\* The producer has signalled done while one consumer is leaving its wait
\* and the other is about to take the lock and evaluate the predicate.
C7_Witness ==
    /\ prog = "step3"
    /\ ProducerSignalledDone
    /\ \E c, d \in Consumers : pc[c] = "blocked" /\ pc[d] = "lock"

\* ------------------------------------------------------------------ C8
\* C8: in efficient_version, under fair scheduling, both threads terminate,
\* and at termination the consumer has consumed exactly the items
\* 1..NUM_ITEMS in order, each once (consumed_count == NUM_ITEMS), with
\* nothing left in the buffer.
C8_EfficientCompletes ==
    <>[](/\ AllDone
         /\ consumed_count[TheConsumer] = NUM_ITEMS
         /\ PoppedItems = [k \in 1..NUM_ITEMS |-> k]
         /\ buffer = <<>>)

\* Both threads have terminated with NUM_ITEMS items consumed.
C8_Witness ==
    /\ prog = "efficient"
    /\ AllDone
    /\ consumed_count[TheConsumer] = NUM_ITEMS
    /\ Len(pushed) = NUM_ITEMS

\* ------------------------------------------------------------------ C9
\* A producer is completing a call of finish() made when finished_ was
\* already true.
SecondFinish(t) ==
    /\ prog = "simple_mp"
    /\ pc[t] = "finish" /\ pc'[t] = "done"
    /\ producer_done

\* C9: a further call of finish() leaves the queue contents, the finished_
\* flag and the set of suspended consumers exactly as they were, and
\* changes nothing of any consumer: what pop() can do afterwards is what it
\* could do before.
C9_IdempotentFinish ==
    [][\A t \in Producers :
          SecondFinish(t) =>
             /\ buffer' = buffer
             /\ producer_done' = producer_done
             /\ cv_not_empty' = cv_not_empty
             /\ \A c \in Consumers : pc'[c] = pc[c]
             /\ item' = item
             /\ consumed_count' = consumed_count
             /\ popped' = popped]_vars

\* finish() has returned twice while a consumer is still inside pop().
C9_Witness ==
    /\ prog = "simple_mp"
    /\ Cardinality({t \in Producers : pc[t] = "done"}) >= 2
    /\ \E c \in Consumers : pc[c] \in {"wait", "pop", "blocked"}

\* ----------------------------------------------------------------- C10
MutexProtected ==
    prog \in {"step2", "step3", "mutex_only", "efficient", "simple"}

\* C10: in step2, step3, mutex_only_version, efficient_version and the
\* simple demo a consumer leaves its loop only in a state where the done
\* flag is true and the buffer is empty, and once all threads have
\* terminated the buffer is empty (final size 0).
C10_ExitOnlyWhenDrained ==
    /\ []((MutexProtected /\ AllDone) => Len(buffer) = 0)
    /\ [][MutexProtected =>
            \A c \in Consumers :
               (pc[c] # "done" /\ pc'[c] = "done") =>
                  (producer_done /\ buffer = <<>>)]_vars

\* In step2 both polling consumers have left their loops, each after
\* taking at least one item, and the producer has returned.
C10_Witness ==
    /\ prog = "step2"
    /\ AllDone
    /\ \A c \in Consumers : consumed_count[c] >= 1

\* ----------------------------------------------------------------- C11
\* A producer completes the statement that sets the flag: finish() in the
\* simple demo, producer_done = true in the other programs.
SetsDoneFlag(t) ==
    /\ pc[t] \in {"finish", "set_done"}
    /\ pc'[t] # pc[t]

\* One step of the lifecycle of the queue in the programs listed in S: the
\* flag is not reset, it is set only by the statement that sets it, and a
\* closed and empty queue stays closed and empty.
LifecycleStep(S) ==
    prog \in S =>
        /\ producer_done => producer_done'
        /\ (~producer_done /\ producer_done') =>
              \E t \in Producers : SetsDoneFlag(t)
        /\ (producer_done /\ buffer = <<>>) =>
              (producer_done' /\ buffer' = <<>>)

\* C11: for each queue instance the done flag is monotonic (once true it is
\* never reset while threads run), the only transition out of OPEN is the
\* call of finish() (the producer's done block), and once the queue is
\* closed and empty it stays closed and empty in every later state.
C11_Lifecycle ==
    [][LifecycleStep({"efficient", "simple", "simple_mp", "step3", "step2",
                      "mutex_only", "cppq"})]_vars

\* The same statement for the shipped programs alone, each with its single
\* producer.
C11_LifecycleShipped ==
    [][LifecycleStep({"efficient", "simple", "step3", "step2", "mutex_only",
                      "cppq"})]_vars

\* ----------------------------------------------------------------- C12
\* C12: in each shipped single-producer program (step2, step3, the simple
\* demo, mutex_only_version, efficient_version) no item is appended to the
\* buffer in a state where the done flag is already true: after the flag
\* is set the buffer length never increases.
C12_NoPushAfterDone ==
    [][(MutexProtected /\ producer_done) =>
          /\ Len(buffer') <= Len(buffer)
          /\ pushed' = pushed]_vars

\* The flag is set while items are still in the buffer and a consumer has
\* just taken one of them.
C12_Witness ==
    /\ MutexProtected
    /\ producer_done
    /\ buffer # <<>>
    /\ \E c \in Consumers : pc[c] \in {"process", "consume", "sleep"}
                            /\ item[c] >= 1

\* ----------------------------------------------------------------- C13
CondVarProg == prog \in {"step3", "simple", "efficient"}

\* Consumer c is suspended in wait() on an empty queue that is not closed.
SuspendedOnEmpty(c) ==
    /\ CondVarProg
    /\ pc[c] = "blocked"
    /\ c \in cv_not_empty
    /\ buffer = <<>>
    /\ ~producer_done

\* The step is a producer's push or done signal issuing its notification:
\* push with notify_one, step3's notify_one after the push, finish(), or
\* the notify_all after the done block.
IssuesNotification ==
    \E t \in Producers :
       /\ pc[t] \in {"push", "notify_one", "finish", "notify_all"}
       /\ pc'[t] # pc[t]

\* The step is a spurious wake-up of c and nothing else.
SpuriousWakeUp(c) ==
    /\ c \in cv_not_empty /\ c \notin cv_not_empty'
    /\ pc' = pc /\ mutex' = mutex
    /\ buffer' = buffer /\ producer_done' = producer_done

\* C13 as stated: a consumer blocked on an empty, non-closed queue in step3,
\* the simple demo and efficient_version takes no lock and makes no
\* re-check of the predicate while it is suspended, and its suspension ends
\* only when a push or the done signal issues a notification.
C13_NoRecheckUntilNotified ==
    [][\A c \in Consumers :
          SuspendedOnEmpty(c) =>
             /\ pc'[c] = "blocked"
             /\ mutex' # c
             /\ c \in cv_not_empty' \/ IssuesNotification]_vars

\* C13, amended: a consumer blocked on an empty, non-closed queue takes no
\* lock and makes no re-check of the predicate while it is suspended, and
\* its suspension ends only by a notification from a push or the done
\* signal, or by a spurious wake-up of wait(); never by a timer.
C13_NoBusyWait ==
    [][\A c \in Consumers :
          SuspendedOnEmpty(c) =>
             /\ pc'[c] = "blocked"
             /\ mutex' # c
             /\ \/ c \in cv_not_empty'
                \/ IssuesNotification
                \/ SpuriousWakeUp(c)]_vars

\* One consumer is suspended on the empty queue while the other has been
\* woken and has not yet re-acquired the lock; items went through before.
C13_Witness ==
    /\ Len(popped) >= 1
    /\ \E c, d \in Consumers :
          /\ SuspendedOnEmpty(c)
          /\ pc[d] = "blocked" /\ d \notin cv_not_empty

C15_MutexOnlyCorrect ==
    prog = "mutex_only" =>
        /\ Len(buffer) <= BUFFER_SIZE
        /\ pushed = [k \in 1..Len(pushed) |-> k]
        /\ i[TheProducer] = Len(pushed) + 1
        /\ pc[TheProducer] \in {"set_done", "done"} =>
              Len(pushed) = NUM_ITEMS
        /\ PoppedItems \o buffer = pushed
        /\ consumed_count[TheConsumer] = Len(popped)
        /\ AllDone => /\ PoppedItems = [k \in 1..NUM_ITEMS |-> k]
                      /\ buffer = <<>>

\* The producer holds the lock and finds the buffer full, so it will
\* retry; the consumer has taken items before.
C15_Witness ==
    /\ prog = "mutex_only"
    /\ pc[TheProducer] = "try_push"
    /\ Len(buffer) = BUFFER_SIZE
    /\ Len(popped) >= 1

\* ----------------------------------------------------------------- C16
\* Some item was consumed (read with front() and then counted) twice.
ConsumedTwice ==
    \E j, k \in 1..Len(popped) :
       j < k /\ popped[j].item >= 1 /\ popped[j].item = popped[k].item

\* Item v was taken out of the buffer but no consumer read it.
Lost(v) ==
    /\ \E k \in 1..Len(popped) : popped[k].removed = v
    /\ \A k \in 1..Len(popped) : popped[k].item # v

\* How many executed pop() calls found the buffer empty.
PopsOnEmpty == Cardinality({k \in 1..Len(popped) : popped[k].removed = 0})

\* Some pop() removed an element other than the one its consumer had read:
\* another consumer acted between this consumer's front() and its pop().
RacedPop ==
    \E k \in 1..Len(popped) : popped[k].removed # popped[k].item

\* C16: in the unsynchronised step1 version (one producer, two consumers,
\* no lock) race conditions are reachable (C16_Witness is such a run), and
\* they are what makes the result wrong: every executed pop() is counted
\* as one consumed item; an item is consumed twice, or lost, only when a
\* pop() removed another element than the one its consumer read, as when
\* both consumers read the same front item; and once all threads have
\* terminated the total consumed exceeds the NUM_ITEMS items produced by
\* the number of pop() calls made on a buffer that another consumer had
\* just emptied.
C16_Step1Races ==
    prog = "step1" =>
        /\ SumCounts(Consumers)
              + Cardinality({c \in Consumers : pc[c] = "count"})
              = Len(popped)
        /\ (ConsumedTwice \/ \E v \in 1..NUM_ITEMS : Lost(v)) => RacedPop
        /\ AllDone => /\ buffer = <<>>
                      /\ SumCounts(Consumers) = NUM_ITEMS + PopsOnEmpty

\* All three threads have terminated after both races: one item was
\* consumed twice while another was lost, a pop() ran on an emptied buffer,
\* and the total consumed differs from the NUM_ITEMS items produced.
C16_Witness ==
    /\ prog = "step1"
    /\ AllDone
    /\ ConsumedTwice
    /\ \E v \in 1..NUM_ITEMS : Lost(v)
    /\ PopsOnEmpty >= 1
    /\ SumCounts(Consumers) # NUM_ITEMS

\* ----------------------------------------------------------------- C17
LockBased == prog \in {"step2", "step3", "simple", "efficient"}

\* The positions whose statement reads or writes the buffer or the done
\* flag: the wait predicates, push, the if / else-if after the wait or
\* after the lock, pop()'s body, and the statements that set the flag.
AccessPositions == {"wait", "push", "check", "pop", "set_done", "finish"}

\* C17: in step2, step3, the simple demo and efficient_version every read
\* or write of the buffer and of the done flag made while the threads run
\* happens while the acting thread holds the buffer mutex (a thread is at
\* an accessing statement only as the holder, and a step that changes the
\* buffer or the flag is a step of the holder), and at most one thread is
\* inside a locked section in any reachable state.
C17_AllAccessUnderLock ==
    /\ [](LockBased =>
            /\ \A t \in Threads : pc[t] \in AccessPositions => mutex = t
            /\ Cardinality({t \in Threads : pc[t] \in AccessPositions}) <= 1)
    /\ [][(LockBased /\ (buffer' # buffer \/ producer_done' # producer_done))
             => (mutex \in Threads /\ pc'[mutex] # pc[mutex])]_vars

\* One thread is inside its locked section, about to access the buffer,
\* while another one, woken from its wait, needs the mutex to go on.
C17_Witness ==
    /\ LockBased
    /\ \E t, u \in Threads :
          /\ t # u
          /\ pc[t] \in AccessPositions /\ mutex = t
          /\ pc[u] = "blocked" /\ u \notin cv_not_empty \cup cv_not_full

\* ----------------------------------------------------------------- C18
\* The programs that wait on a condition variable.
UsesCondVar == prog \in {"step3", "simple", "efficient", "cppq"}

\* C18: although a waiting thread may wake spuriously at any time, the
\* condition-variable variants keep their safety properties: a thread is
\* past its wait only with its predicate true under the lock (a woken
\* thread evaluates the predicate again before it goes on), a consumer
\* reads front() and pops only from a non-empty buffer, and the
\* efficient_version producer pushes only into a buffer that holds fewer
\* than BUFFER_SIZE items.
C18_SafeUnderSpuriousWakeups ==
    /\ [](UsesCondVar =>
            /\ \A c \in Consumers :
                  pc[c] \in {"check", "pop"} =>
                     /\ mutex = c
                     /\ buffer # <<>> \/ (producer_done /\ prog # "cppq")
            /\ \A t \in Producers :
                  (prog = "efficient" /\ pc[t] = "push") =>
                     (mutex = t /\ Len(buffer) < BUFFER_SIZE))
    /\ [][UsesCondVar =>
            /\ \A t \in Threads :
                  (pc[t] = "blocked" /\ pc'[t] # "blocked") =>
                     (pc'[t] = "wait" /\ mutex' = t)
            /\ popped' # popped =>
                  /\ buffer # <<>>
                  /\ buffer' = Tail(buffer)
                  /\ popped' = Append(popped, [by |-> mutex,
                                               item |-> Head(buffer)])
            /\ (prog = "efficient" /\ pushed' # pushed) =>
                  (Len(buffer) < BUFFER_SIZE /\ Len(buffer') <= BUFFER_SIZE)
         ]_vars

\* The efficient_version producer has been woken while the buffer is still
\* full: the consumer's notify_one comes with a pop, so this wake-up is
\* spurious, and the consumer has taken items before.
C18_Witness ==
    /\ prog = "efficient"
    /\ pc[TheProducer] = "blocked"
    /\ TheProducer \notin cv_not_full
    /\ Len(buffer) = BUFFER_SIZE
    /\ Len(popped) >= 1

\* ----------------------------------------------------------------- C19
\* The producer is suspended in buffer_not_full.wait with item k pending
\* (or woken from it and not yet running again) while the buffer has room.
PendingPushWithRoom(k) ==
    /\ prog = "efficient"
    /\ pc[TheProducer] = "blocked"
    /\ i[TheProducer] = k
    /\ Len(buffer) < BUFFER_SIZE

\* C19: in efficient_version a producer suspended because the buffer holds
\* BUFFER_SIZE items is woken by the consumer's pop (the step that removes
\* an item while the producer waits on buffer_not_full takes it out of the
\* waiters), and under fair scheduling it then completes its pending push:
\* it never stays blocked while the buffer has room.
C19_ProducerWokenByPop ==
    /\ [][(prog = "efficient" /\ popped' # popped
              /\ TheProducer \in cv_not_full)
             => TheProducer \notin cv_not_full']_vars
    /\ \A k \in 1..NUM_ITEMS :
          PendingPushWithRoom(k) ~> (Len(pushed) >= k)

\* The consumer has just removed an item from the full buffer and its
\* notify_one has woken the producer, whose push is still pending.
C19_Witness ==
    /\ prog = "efficient"
    /\ pc[TheProducer] = "blocked"
    /\ TheProducer \notin cv_not_full
    /\ Len(buffer) = BUFFER_SIZE - 1
    /\ pc[TheConsumer] = "sleep"
    /\ Len(pushed) < NUM_ITEMS

\* ----------------------------------------------------------------- C20
\* The positions at which a thread is suspended in a condition-variable
\* wait or is in a sleep_for delay (simulated work, processing, polling).
DelayPositions == {"blocked", "sleep", "process", "consume", "poll"}

\* C20: in step2, step3, the simple demo and efficient_version no thread
\* holds the buffer mutex while it is suspended in a condition-variable
\* wait or while it is in its simulated work / processing delay: the lock
\* is released before every such delay, and a step into a delay leaves the
\* mutex free for the other threads.
C20_NoLockHeldWhileDelayed ==
    /\ [](LockBased =>
            \A t \in Threads : pc[t] \in DelayPositions => mutex # t)
    /\ [][LockBased =>
            \A t \in Threads :
               (mutex = t /\ pc'[t] \in DelayPositions) =>
                  mutex' = NoThread]_vars

\* One consumer is in its processing delay and the other is suspended in
\* its wait while the producer, holding the mutex, is about to push.
C20_Witness ==
    /\ LockBased
    /\ \E c, d \in Consumers :
          /\ pc[c] \in {"process", "consume"}
          /\ pc[d] = "blocked" /\ d \in cv_not_empty
          /\ pc[TheProducer] = "push" /\ mutex = TheProducer

\* ----------------------------------------------------------------- C21
\* C21: in the mutex_only_version consumer the buffer lock is released
\* once the item has been taken, before the per-iteration delay: the
\* consumer never holds buffer_mutex during its sleep_for step, so the
\* producer can take the lock while the consumer sleeps.
C21_ConsumerSleepsUnlocked ==
    prog = "mutex_only" =>
        \A c \in Consumers : pc[c] = "sleep" => mutex # c

Discarded(v) ==
    /\ v < i[TheProducer]
    /\ \A k \in 1..Len(pushed) : pushed[k] # v

\* C24: in buggy_version the producer discards item i whenever the buffer
\* already holds BUFFER_SIZE items at its size check: it goes on to item
\* i+1 without pushing, waiting or retrying, and the item never enters the
\* buffer later.  So, with no statement of one thread overlapping one of
\* the other, the items that enter the buffer are an increasing selection
\* of 1..NUM_ITEMS that can leave items out (C24_Witness), and the
\* consumer's final count is the number of items that entered, below
\* NUM_ITEMS exactly when an item was discarded.
C24_BuggyDiscards ==
    /\ [](prog = "buggy" =>
            /\ Len(buffer) <= BUFFER_SIZE
            /\ \A k \in 1..Len(pushed) :
                  /\ pushed[k] \in 1..NUM_ITEMS
                  /\ pushed[k] < i[TheProducer]
                  /\ k > 1 => pushed[k - 1] < pushed[k]
            /\ PoppedItems \o buffer = pushed
            /\ AllDone =>
                  /\ consumed_count[TheConsumer] = Len(pushed)
                  /\ consumed_count[TheConsumer] < NUM_ITEMS
                        <=> \E v \in 1..NUM_ITEMS : Discarded(v))
    /\ [][(prog = "buggy" /\ pc[TheProducer] = "check"
              /\ pc'[TheProducer] # "check"
              /\ Len(buffer) >= BUFFER_SIZE) =>
             /\ i'[TheProducer] = i[TheProducer] + 1
             /\ pushed' = pushed
             /\ buffer' = buffer]_vars

\* Both threads have terminated, an item was discarded on a full buffer
\* and the consumer's final count is below NUM_ITEMS.
C24_Witness ==
    /\ prog = "buggy"
    /\ AllDone
    /\ \E v \in 1..NUM_ITEMS : Discarded(v)
    /\ consumed_count[TheConsumer] < NUM_ITEMS
    /\ consumed_count[TheConsumer] >= BUFFER_SIZE

ProducerStuck(t) ==
    /\ prog = "efficient_mp"
    /\ \A c \in Consumers : pc[c] = "done"
    /\ pc[t] = "blocked"
    /\ t \in cv_not_full
    /\ Len(buffer) = BUFFER_SIZE

\* C23: when producer() and consumer() of efficient_version are each run
\* by more than one thread on the shared bounded buffer, every thread
\* eventually terminates; in particular no producer is left blocked on
\* buffer_not_full after the consumers have exited.
C23_NoProducerStuck ==
    \A t \in Producers : ~ProducerStuck(t)

\* ----------------------------------------------------------------- C26
\* The elements a stack stores: data[0 .. top_index - 1].
Stack_elements(s) == [k \in 0..(s.top_index - 1) |-> s.data[k]]

\* One member call of the stack: a push on a full stack must raise the
\* overflow error, a pop or top on an empty stack the underflow error, and
\* a call that raises must leave the elements and the size as they were.
StackCall ==
    LET was_full == Stack_size(int_stack) = MaxSize
        was_empty == Stack_empty(int_stack)
        untouched == /\ Stack_elements(int_stack') = Stack_elements(int_stack)
                     /\ Stack_size(int_stack') = Stack_size(int_stack)
    IN  /\ (ret'.op = "push" /\ was_full) =>
               (ret'.error = "overflow_error" /\ untouched)
        /\ (ret'.op \in {"pop", "top"} /\ was_empty) =>
               (ret'.error = "underflow_error" /\ untouched)
        /\ ret'.error # "none" => untouched

\* C26: for Stack<T, MaxSize>, after any sequence of push/pop/top calls
\* 0 <= size() <= MaxSize; a push on a stack with size() = MaxSize raises
\* the overflow error, a pop or top on an empty stack raises the underflow
\* error, and in each error case the stored elements and size() are
\* unchanged.
C26_StackBoundsAndErrors ==
    /\ [](0 <= Stack_size(int_stack) /\ Stack_size(int_stack) <= MaxSize)
    /\ [][StackCall]_vars

\* A push was made on a stack holding MaxSize elements and was refused
\* with the overflow error.
C26_Witness ==
    /\ prog = "Stack"
    /\ ret.op = "push"
    /\ ret.error = "overflow_error"
    /\ Stack_size(int_stack) = MaxSize
    /\ \A k \in 0..(MaxSize - 1) : int_stack.data[k] # ret.arg

\* ----------------------------------------------------------------- C27
\* The items a ring buffer holds, oldest first: size() slots from tail on.
RingBuffer_contents(r) ==
    [k \in 1..RingBuffer_size(r) |-> r.buffer[(r.tail + k - 1) % Size]]

\* One member call of the ring buffer: a push returns true; a pop returns
\* false when the first-in first-out queue is empty and otherwise true
\* with that queue's oldest item.
RingCall ==
    /\ ret'.op = "push" => ret'.ok
    /\ ret'.op = "pop" =>
           IF fifo.retained = <<>> THEN ~ret'.ok
           ELSE ret'.ok /\ ret'.value = Head(fifo.retained)

\* C27: for every sequence of push and pop calls RingBuffer<T, Size>
\* behaves like a first-in first-out queue that keeps only the most recent
\* Size items: push always returns true and overwrites the oldest item of
\* a full buffer; pop returns false on an empty buffer and otherwise the
\* oldest retained item.
C27_RingIsBoundedFifo ==
    /\ [](RingBuffer_contents(ring) = fifo.retained)
    /\ [][RingCall]_vars

\* The last push displaced item 1 of a full buffer, and a pop made after
\* it handed back item 2 while the items after it are still retained
\* (items 1 .. Size + 1 pushed in order, then one popped, is such a run).
C27_Witness ==
    /\ prog = "RingBuffer"
    /\ ret.op = "pop"
    /\ ret.ok
    /\ fifo.dropped = 1
    /\ ret.value = 2
    /\ fifo.retained # <<>>
    /\ \A k \in 1..Len(fifo.retained) : fifo.retained[k] = ret.value + k

\* ----------------------------------------------------------------- C28
\* C28: after any sequence of RingBuffer push/pop calls head < Size and
\* tail < Size; full implies head = tail; size() <= Size; empty() holds
\* exactly when size() = 0; is_full() holds exactly when size() = Size;
\* and size() is the smaller of Size and the number of items pushed and
\* not yet popped or overwritten.
C28_RingInvariants ==
    LET held == Len(fifo.retained)
    IN  /\ 0 <= ring.head /\ ring.head < Size
        /\ 0 <= ring.tail /\ ring.tail < Size
        /\ ring.full => ring.head = ring.tail
        /\ RingBuffer_size(ring) <= Size
        /\ RingBuffer_empty(ring) <=> RingBuffer_size(ring) = 0
        /\ RingBuffer_is_full(ring) <=> RingBuffer_size(ring) = Size
        /\ RingBuffer_size(ring) = IF held < Size THEN held ELSE Size

\* The buffer was filled, emptied again by pops and refilled in part, so
\* that the retained items wrap round the end of the array: head is below
\* tail and the buffer is neither empty nor full.
C28_Witness ==
    /\ prog = "RingBuffer"
    /\ ring.head < ring.tail
    /\ ~ring.full
    /\ ring.head > 0
    /\ RingBuffer_size(ring) = Size - 1

\* ----------------------------------------------------------------- C29
\* The slot a pointer into the pool refers to.
SlotOf(ptr) == (ptr - pool_addr) \div sizeof_T

\* The slots marked used.
UsedSlots(m) == {k \in 0..(PoolSize - 1) : m.used[k]}

\* One deallocate call: handed a null pointer, a pointer outside the pool
\* or the address of a slot that is already free, it changes nothing.
DeallocateCall ==
    LET ptr == ret'.arg
        no_slot == \/ ptr = nullptr
                   \/ ptr < pool_addr
                   \/ ptr >= pool_addr + PoolSize * sizeof_T
    IN  (ret'.op = "deallocate"
         /\ (no_slot \/ SlotOf(ptr) \notin UsedSlots(sensor_pool)))
        => sensor_pool' = sensor_pool

\* C29: after any sequence of MemoryPool allocate/deallocate calls,
\* allocated_count equals the number of slots marked used, allocated() +
\* available() = PoolSize, and two allocations that are both live never
\* refer to the same slot; deallocating a slot that is already free, a
\* null pointer or a pointer outside the pool changes nothing.
C29_PoolAccounting ==
    /\ [](/\ sensor_pool.allocated_count = Cardinality(UsedSlots(sensor_pool))
          /\ MemoryPool_allocated(sensor_pool)
               + MemoryPool_available(sensor_pool) = PoolSize
          /\ \A a, b \in 1..Len(live) :
                 a # b => SlotOf(live[a]) # SlotOf(live[b]))
    /\ [][DeallocateCall]_vars

\* The address of a slot that is already free was handed to deallocate()
\* while two other allocations are live.
C29_Witness ==
    /\ prog = "MemoryPool"
    /\ ret.op = "deallocate"
    /\ ~ret.ok
    /\ ret.error = "none"
    /\ ret.arg # nullptr
    /\ Len(live) = 2
    /\ sensor_pool.allocated_count = 2

\* ----------------------------------------------------------------- C30
\* One allocate call: with a free slot it returns the address of the
\* lowest-indexed one and marks it used; with none it returns nullptr and
\* leaves the pool as it was; made right after a deallocate that released
\* a slot, it succeeds.
AllocateCall ==
    LET free == {k \in 0..(PoolSize - 1) : k \notin UsedSlots(sensor_pool)}
        lowest == CHOOSE k \in free : \A j \in free : k <= j
    IN  ret'.op = "allocate" =>
          /\ IF Cardinality(UsedSlots(sensor_pool)) < PoolSize
             THEN /\ ret'.value = pool_addr + lowest * sizeof_T
                  /\ ret'.value # nullptr
                  /\ UsedSlots(sensor_pool') =
                         UsedSlots(sensor_pool) \cup {lowest}
             ELSE /\ ret'.value = nullptr
                  /\ sensor_pool' = sensor_pool
          /\ (ret.op = "deallocate" /\ ret.ok) => ret'.value # nullptr

\* C30: MemoryPool<T, PoolSize> serves exactly PoolSize simultaneous
\* objects: allocate() succeeds whenever fewer than PoolSize slots are in
\* use and returns the lowest-indexed free slot; when all PoolSize slots
\* are in use it returns nullptr and leaves the used flags and
\* allocated_count unchanged; after a deallocate, a following allocate
\* succeeds again.
C30_PoolServesPoolSize ==
    /\ [](Len(live) <= PoolSize)
    /\ [][AllocateCall]_vars

\* PoolSize objects are live and a further allocate() was refused with
\* nullptr.
C30_Witness ==
    /\ prog = "MemoryPool"
    /\ ret.op = "allocate"
    /\ ret.value = nullptr
    /\ Len(live) = PoolSize
    /\ sensor_pool.allocated_count = PoolSize

====
